---- MODULE Spec2Model ----
(***************************************************************************)
(* Streaming normalisation of llama_stack/providers/utils/inference/       *)
(* openai_compat.py.                                                       *)
(*                                                                         *)
(* Two generators are modelled, one run per behaviour (variable machine):  *)
(*   "chat": process_chat_completion_stream_response  (lines 383-512)      *)
(*   "wire": convert_openai_chat_completion_stream    (lines 1060-1217)    *)
(*                                                                         *)
(* Text is a sequence of tokens; the special markers are single tokens, as *)
(* the tokenizer produces them.  events is the sequence of values the      *)
(* generator has yielded so far; consumed is the prefix of the upstream    *)
(* stream it has pulled, and emitted[k] the events yielded while chunk k   *)
(* was being processed (history, not program state).                       *)
(*                                                                         *)
(* The non-streaming functions are one call per behaviour: response holds  *)
(* the argument, result the returned value (or that the call raised).      *)
(*   "completion":    process_completion_response       (lines 253-278)    *)
(*   "chat_response": process_chat_completion_response  (lines 281-344)    *)
(*                                                                         *)
(*   "convert_tool_call": convert_tool_call            (lines 658-680)     *)
(*   "logprobs": convert_openai_completion_logprobs    (lines 212-228)     *)
(*                                                                         *)
(* A shim is one call per behaviour too, with one step per invocation of   *)
(* the operation it wraps: request holds its arguments, shim its locals.   *)
(*   "completion_shim": OpenAICompletionToLlamaStackMixin.openai_completion *)
(*                      (lines 1239-1304)                                  *)
(*                                                                         *)
(* The sampling parameters are translated by two pure functions:           *)
(*   "sampling": _convert_openai_sampling_params       (lines 953-975)     *)
(*   "sampling_round_trip": get_sampling_strategy_options (lines 154-166)  *)
(*                      followed by _convert_openai_sampling_params        *)
(*                                                                         *)
(* The Eval API resolvers (src/src/llama_stack_api/eval/compat.py) are one *)
(* call per behaviour, machine "eval": request holds the resolver and its  *)
(* arguments, result what it returned, warnings the warnings recorded.     *)
(*                                                                         *)
(* The chat shim's streaming output is machine "chat_shim":                *)
(*   OpenAIChatCompletionToLlamaStackMixin.openai_chat_completion with     *)
(*   stream=True (lines 1308-1360) and _process_stream_response            *)
(*   (lines 1366-1407), one step per event read from a response.           *)
(*                                                                         *)
(* The completion stream is machine "completion_stream":                   *)
(*   process_completion_stream_response (lines 347-380), one step per      *)
(*   upstream chunk; events holds the chunks it yields.                    *)
(*                                                                         *)
(* The batch explanation job is machine "batch_explain":                   *)
(*   CaptumExplanationImpl.batch_explain and the handler it schedules      *)
(*   (captum_explanation.py, lines 143-186), one step per item explained;  *)
(*   request holds the arguments, shim the scheduler's jobs and what the   *)
(*   handler passed to its callbacks, result the job returned.             *)
(***************************************************************************)
EXTENDS Integers, Sequences, FiniteSets, TLC

VARIABLES machine, pc, events, stop_reason, consumed, emitted,
          buffer, ipython, request_tools, decoded,
          enable_incremental_tool_calls, tool_call_idx_to_buffer, delta,
          warnings, response, result, phase, running, parked, solo, overlap,
          request, shim

vars == <<machine, pc, events, stop_reason, consumed, emitted,
          buffer, ipython, request_tools, decoded,
          enable_incremental_tool_calls, tool_call_idx_to_buffer, delta,
          warnings, response, result, phase, running, parked, solo, overlap,
          request, shim>>

\* The argument and the return value of a non-streaming call; the request
\* handed to a shim and the locals of the shim while it runs.
callVars == <<response, result, request, shim>>

\* Two generators consumed by one event loop: the phase of the experiment,
\* the generator that is running, the frame of the suspended one, the
\* recorded run of a generator consumed alone, and whether the suspended
\* generator advanced while the other was midway (history).
shimVars == <<request, shim>>

pairVars == <<phase, running, parked, solo, overlap>>

chatVars == <<buffer, ipython, request_tools, decoded>>

wireVars == <<enable_incremental_tool_calls, tool_call_idx_to_buffer, delta,
              warnings>>

\* ------------------------------------------------------------------ bounds

\* Longest upstream stream of the chat machine, in chunks.
MaxChunks == 3

\* Longest upstream stream of the wire machine, in chunks.
MaxDeltas == 3

\* Longest completion text handed to process_completion_response, in tokens.
MaxTextLen == 3

\* Most tool calls in the message handed to process_chat_completion_response.
MaxToolCalls == 2

\* Most token positions in the log-probabilities of a completion.
MaxPositions == 2

\* Largest n of an openai_completion request.
MaxN == 2

\* Longest prompt list of an openai_completion request.
MaxPrompts == 2

\* Longest upstream stream of each of two generators consumed together.
MaxPairChunks == 2

\* Largest temperature and top_p of a sampling strategy, in tenths.
MaxTenths == 11

\* Largest max_tokens handed to _convert_openai_sampling_params.
MaxTokens == 2

\* Largest top_k of a top-k sampling strategy.
MaxTopK == 2

\* Longest input_rows list handed to resolve_evaluate_rows_request.
MaxRows == 2

\* Most events read from the responses of one openai_chat_completion call.
MaxEvents == 3

\* Longest upstream stream of process_completion_stream_response, in chunks.
MaxCompletionChunks == 2

\* Longest content list handed to batch_explain.
MaxItems == 2

\* ------------------------------------------------------------- vocabulary

None == "None"

PY == "<|python_tag|>"

EOT == "<|eot_id|>"

EOM == "<|eom_id|>"

end_of_turn == "end_of_turn"

end_of_message == "end_of_message"

out_of_tokens == "out_of_tokens"

StopReason == {end_of_turn, end_of_message, out_of_tokens}

\* Python truthiness of an Optional[str] / Optional[Enum] value.
Truthy(x) == x \notin {None, ""}

RECURSIVE Concat(_)
\* "".join(texts) for a sequence of token sequences.
Concat(texts) ==
    IF texts = <<>> THEN <<>> ELSE Head(texts) \o Concat(Tail(texts))

\* text.startswith(marker), the marker being one token.
StartsWith(text, marker) == Len(text) > 0 /\ text[1] = marker

\* marker in text.
Contains(text, marker) == \E i \in 1..Len(text) : text[i] = marker

\* --------------------------------------------------------- canonical events

\* The placeholder of the tool_call field of an event that carries no
\* structured ToolCall.
NoCall == [call_id |-> "", tool_name |-> "", arguments |-> ""]

\* ChatCompletionResponseStreamChunk(event=ChatCompletionResponseEvent(...)).
\* delta_type "text" is TextDelta(text=text); "tool_call" is ToolCallDelta,
\* whose tool_call is the string text or the structured tool_call.  idx is
\* history: the tool-call index the wire machine emitted the event for
\* (-1 elsewhere); the program's event has no such field.
Event(type, dtype, text, call, status, stop, idx) ==
    [event_type |-> type, delta_type |-> dtype, text |-> text,
     tool_call |-> call, parse_status |-> status, stop_reason |-> stop,
     idx |-> idx]

StartEvent == Event("start", "text", <<>>, NoCall, None, None, -1)

CompleteEvent(stop) == Event("complete", "text", <<>>, NoCall, None, stop, -1)

TextEvent(text, stop) == Event("progress", "text", text, NoCall, None, stop, -1)

ToolTextEvent(text, status, stop, idx) ==
    Event("progress", "tool_call", text, NoCall, status, stop, idx)

ToolCallEvent(call, stop, idx) ==
    Event("progress", "tool_call", <<>>, call, "succeeded", stop, idx)

\* ---------------------------------------------------------------------------
\* process_chat_completion_stream_response
\* ---------------------------------------------------------------------------

\* Tokens of the raw-text providers' output.
ChatTexts ==
    { <<>>, <<PY>>, <<PY, "foo(">>, <<"foo(">>, <<"bar(">>, <<"x=1)">>,
      <<"bar(", "x=1)">>, <<EOT>>, <<EOM>>, <<"hi">>, <<"hi", EOT>> }

ChatFinishReasons == {None, "stop", "eos", "eos_token", "length", "tool_calls"}

\* One upstream chunk: chunk.choices[0] reduced to text_from_choice(choice)
\* and choice.finish_reason.
ChatChunks == [text : ChatTexts, finish_reason : ChatFinishReasons]

\* request.tools, as the set of declared tool names.
RequestTools == { {}, {"foo"}, {"foo", "bar"} }

text_from_choice(choice) == choice.text

\* Lines 402-406: the stop reason after a chunk with a finish_reason.
FinishStopReasonUnguarded(stop, finish_reason) ==
    IF finish_reason \in {"stop", "eos", "eos_token"} THEN end_of_turn
    ELSE IF finish_reason = "length" THEN out_of_tokens
    ELSE stop

FinishStopReason(stop, finish_reason) ==
    IF stop = None /\ finish_reason \in {"stop", "eos", "eos_token"}
        THEN end_of_turn
    ELSE IF stop = None /\ finish_reason = "length" THEN out_of_tokens
    ELSE stop

\* decode_assistant_message(buffer, stop_reason).tool_calls: the decoder of
\* prompt_adapter, an opaque deterministic text -> message function.  Here:
\* an optional leading python tag, then calls "name(" "args)"; anything
\* else decodes to no tool call.
OpenTokens == {"foo(", "bar("}

CloseTokens == {"x=1)"}

ToolNameOf(tok) == IF tok = "foo(" THEN "foo" ELSE "bar"

RECURSIVE ParseCalls(_)
ParseCalls(body) ==
    IF Len(body) < 2 THEN <<>>
    ELSE <<[call_id |-> "", tool_name |-> ToolNameOf(body[1]),
            arguments |-> "{x:1}"]>> \o ParseCalls(SubSeq(body, 3, Len(body)))

RECURSIVE WellFormedCalls(_)
WellFormedCalls(body) ==
    \/ body = <<>>
    \/ /\ Len(body) >= 2
       /\ body[1] \in OpenTokens
       /\ body[2] \in CloseTokens
       /\ WellFormedCalls(SubSeq(body, 3, Len(body)))

decode_assistant_message(content) ==
    LET body == IF StartsWith(content, PY) THEN Tail(content) ELSE content
    IN  IF body # <<>> /\ WellFormedCalls(body) THEN ParseCalls(body) ELSE <<>>

\* Lines 387-396: the first value of the generator.
ChatStart ==
    /\ machine = "chat"
    /\ pc = "init"
    /\ events' = <<StartEvent>>
    /\ pc' = "loop"
    /\ UNCHANGED <<machine, callVars, pairVars, stop_reason, consumed,
                   emitted, chatVars, wireVars>>

\* The events one iteration of the loop at lines 398-460 yields for a chunk
\* without finish_reason.
ChatChunkEvents(text) ==
    IF text = <<>> THEN <<>>
    ELSE IF ~ipython /\ StartsWith(text, PY)
        THEN <<ToolTextEvent(<<>>, "started", None, -1)>>
    ELSE IF text = <<EOT>> \/ text = <<EOM>> THEN <<>>
    ELSE IF ipython THEN <<ToolTextEvent(text, "in_progress", stop_reason, -1)>>
    ELSE <<TextEvent(text, stop_reason)>>

\* A plausible slip: `continue` where line 407 has `break`.
ChatContinue == "loop"

\* Line 407: `break` leaves the loop for the decoding at line 462.
ChatBreak == "decode"

\* Lines 398-460: one iteration of `async for chunk in stream`.
ChatChunk ==
    /\ machine = "chat"
    /\ pc = "loop"
    /\ Len(consumed) < MaxChunks
    /\ \E chunk \in ChatChunks :
         LET finish_reason == chunk.finish_reason
             text == text_from_choice(chunk)
         IN  /\ consumed' = Append(consumed, chunk)
             /\ IF Truthy(finish_reason)
                  THEN \* lines 402-407
                       /\ stop_reason' = FinishStopReason(stop_reason, finish_reason)
                       /\ pc' = ChatBreak
                       /\ emitted' = Append(emitted, <<>>)
                       /\ UNCHANGED <<events, buffer, ipython>>
                  ELSE /\ pc' = "loop"
                       /\ events' = events \o ChatChunkEvents(text)
                       /\ emitted' = Append(emitted, ChatChunkEvents(text))
                       /\ ipython' = (ipython \/ StartsWith(text, PY))
                       /\ buffer' =
                            IF text = <<EOT>> \/ text = <<EOM>> THEN buffer
                            ELSE buffer \o text
                       /\ stop_reason' =
                            IF ipython \/ ~StartsWith(text, PY)
                              THEN IF text = <<EOT>> THEN end_of_turn
                                   ELSE IF text = <<EOM>> THEN end_of_message
                                   ELSE stop_reason
                              ELSE stop_reason
    /\ UNCHANGED <<machine, callVars, pairVars, request_tools, decoded,
                   wireVars>>

\* The upstream stream ends (StopAsyncIteration) without a finish_reason.
ChatStreamEnd ==
    /\ machine = "chat"
    /\ pc = "loop"
    /\ pc' = "decode"
    /\ UNCHANGED <<machine, callVars, pairVars, events, stop_reason, consumed,
                   emitted, chatVars, wireVars>>

\* Lines 478-504 without the lookup in the request's tools.
ChatToolCallEventUnchecked(tool_call) ==
    ToolCallEvent(tool_call, stop_reason, -1)

\* Lines 478-504: one terminal event per decoded tool call.
ChatToolCallEvent(tool_call) ==
    IF tool_call.tool_name \in request_tools
      THEN ToolCallEvent(tool_call, stop_reason, -1)
      ELSE ToolTextEvent(buffer, "failed", stop_reason, -1)

\* Lines 465-476 reporting every buffer that holds no tool call.
ChatParseFailureAnyMode(tool_calls) ==
    IF Len(tool_calls) = 0
      THEN <<ToolTextEvent(<<>>, "failed", stop_reason, -1)>>
      ELSE <<>>

\* Lines 465-476: the parse failure of a stream in tool-call mode.
ChatParseFailure(tool_calls) ==
    IF ipython /\ Len(tool_calls) = 0
      THEN <<ToolTextEvent(<<>>, "failed", stop_reason, -1)>>
      ELSE <<>>

\* Lines 462-512: decode the buffer, report the tool calls, complete.
ChatFinish ==
    /\ machine = "chat"
    /\ pc = "decode"
    /\ LET tool_calls == decode_assistant_message(buffer)
           failed == ChatParseFailure(tool_calls)
           reported == [i \in 1..Len(tool_calls) |->
                          ChatToolCallEvent(tool_calls[i])]
       IN  /\ decoded' = Append(decoded, buffer)
           /\ events' = events \o failed \o reported
                          \o <<CompleteEvent(stop_reason)>>
    /\ pc' = "done"
    /\ UNCHANGED <<machine, callVars, pairVars, stop_reason, consumed,
                   emitted, buffer, ipython, request_tools, wireVars>>

NextChat == ChatStart \/ ChatChunk \/ ChatStreamEnd \/ ChatFinish

\* ---------------------------------------------------------------------------
\* convert_openai_chat_completion_stream
\* ---------------------------------------------------------------------------

\* Lines 808-830: the table's .get(finish_reason, StopReason.end_of_turn).
\* A null finish_reason is not a key of the table either.
_convert_openai_finish_reason(finish_reason) ==
    IF finish_reason = "stop" THEN end_of_turn
    ELSE IF finish_reason = "length" THEN out_of_tokens
    ELSE IF finish_reason = "tool_calls" THEN end_of_message
    ELSE end_of_turn

\* Python's `a or b`.
Or(a, b) == IF Truthy(a) THEN a ELSE b

\* Line 1083: stop_reason = _convert_openai_finish_reason(...) or stop_reason.
WireStopReason(stop, finish_reason) ==
    Or(_convert_openai_finish_reason(finish_reason), stop)

\* json.loads on argument text: the texts that are complete JSON objects.
JsonValid(arguments) == arguments \in { <<"{}">>, <<"{x:", "1}">> }

JsonLoads(arguments) == IF arguments = <<"{}">> THEN "{}" ELSE "{x:1}"

\* ChoiceDeltaToolCallFunction; present = FALSE is tool_call.function = None,
\* a null name is None and null or empty arguments are <<>>.
Fn(name, arguments) == [present |-> TRUE, name |-> name, arguments |-> arguments]

NoFunction == [present |-> FALSE, name |-> None, arguments |-> <<>>]

WireFunctions ==
    { NoFunction, Fn("foo", <<>>), Fn(None, <<"{x:">>), Fn(None, <<"1}">>),
      Fn("foo", <<"{}">>), Fn(None, <<>>) }

\* ChoiceDeltaToolCall.
Frag(index, function) ==
    [index |-> index, id |-> IF index = 0 THEN "call_0" ELSE "call_1",
     function |-> function]

WireChunk(finish_reason, content, tool_calls) ==
    [finish_reason |-> finish_reason, content |-> content,
     tool_calls |-> tool_calls]

\* The upstream chunks: chunk.choices[0] reduced to finish_reason,
\* delta.content and delta.tool_calls.
WireChunks ==
    { WireChunk(f, <<>>, <<>>) :
        f \in {None, "stop", "length", "tool_calls", "content_filter"} }
    \cup { WireChunk(None, <<"hi">>, <<>>), WireChunk("stop", <<"hi">>, <<>>) }
    \cup { WireChunk(None, <<>>, <<Frag(i, fn)>>) :
             i \in {0, 1}, fn \in WireFunctions }
    \cup { WireChunk(None, <<"hi">>, <<Frag(0, Fn("foo", <<>>))>>),
           WireChunk(None, <<>>, <<Frag(0, Fn("foo", <<>>)),
                                   Frag(1, Fn("bar", <<"{}">>))>>) }

\* Lines 1068-1077: the first value of the generator.
WireStart ==
    /\ machine = "wire"
    /\ pc = "init"
    /\ events' = <<StartEvent>>
    /\ pc' = "loop"
    /\ UNCHANGED <<machine, callVars, pairVars, stop_reason, consumed,
                   emitted, chatVars, wireVars>>

\* tool_call_idx_to_buffer, a dict: the entries in insertion order.
HasBuffer(buffers, idx) == \E k \in 1..Len(buffers) : buffers[k].idx = idx

BufferPos(buffers, idx) == CHOOSE k \in 1..Len(buffers) : buffers[k].idx = idx

\* The local variable delta of the generator: unbound until first assigned.
Unbound == [bound |-> FALSE, value |-> <<>>]

Bound(value) == [bound |-> TRUE, value |-> value]

\* The state one iteration threads through `for tool_call in
\* choice.delta.tool_calls`: the buffers, the local delta, the events
\* yielded, and whether an exception left the generator.
LoopState(buffers, d, out, raised) ==
    [buffers |-> buffers, delta |-> d, out |-> out, raised |-> raised]

\* Lines 1135-1143: the value of delta when line 1149 reads it.
FragmentDelta(d, function) ==
    IF function.arguments # <<>> THEN Bound(function.arguments)
    ELSE IF Truthy(function.name) THEN Bound(<<function.name, "(">>)
    ELSE d

\* Lines 1122-1154: one tool call of a delta, incremental mode.
IncrementalToolCall(st, tool_call) ==
    LET idx == tool_call.index
        function == tool_call.function
        buffers1 ==
            IF HasBuffer(st.buffers, idx) THEN st.buffers
            ELSE Append(st.buffers,
                        [idx |-> idx, call_id |-> tool_call.id, name |-> None,
                         arguments |-> <<>>, content |-> <<>>])
        k == BufferPos(buffers1, idx)
        b == buffers1[k]
        named == IF Truthy(function.name)
                   THEN [b EXCEPT !.name = function.name,
                                  !.content = @ \o <<function.name, "(">>]
                   ELSE b
        filled == [named EXCEPT !.arguments = @ \o function.arguments,
                                !.content = @ \o function.arguments]
        d == FragmentDelta(st.delta, function)
    IN  IF ~function.present
          THEN LoopState(buffers1, st.delta, st.out, FALSE)
        ELSE IF ~d.bound
          THEN \* UnboundLocalError at line 1149
               LoopState([buffers1 EXCEPT ![k] = filled], d, st.out, TRUE)
        ELSE LoopState([buffers1 EXCEPT ![k] = filled], d,
                       Append(st.out,
                              ToolTextEvent(d.value, "in_progress", None, idx)),
                       FALSE)

\* Lines 883-916 on a one-element list: does _convert_openai_tool_calls raise
\* (function is None, or json.loads fails).
ConvertRaises(tool_call) ==
    ~tool_call.function.present \/ ~JsonValid(tool_call.function.arguments)

\* Lines 1109-1119: one tool call of a delta, non-incremental mode.
WholeToolCall(st, tool_call) ==
    IF ConvertRaises(tool_call)
      THEN LoopState(st.buffers, st.delta, st.out, TRUE)
      ELSE LoopState(st.buffers, st.delta,
                     Append(st.out,
                            ToolCallEvent(
                              [call_id |-> tool_call.id,
                               tool_name |-> tool_call.function.name,
                               arguments |->
                                 JsonLoads(tool_call.function.arguments)],
                              None, tool_call.index)),
                     FALSE)

RECURSIVE ToolCallLoop(_, _, _)
\* Lines 1108-1154: the loop over the visited tool calls; an exception ends it.
ToolCallLoop(st, tool_calls, incremental) ==
    IF tool_calls = <<>> \/ st.raised THEN st
    ELSE ToolCallLoop(
           IF incremental THEN IncrementalToolCall(st, Head(tool_calls))
                          ELSE WholeToolCall(st, Head(tool_calls)),
           Tail(tool_calls), incremental)

\* Lines 1088-1154 with the content yielded after the tool-call loop.
WireChunkEventsContentLast(text, out) == out \o text

\* Lines 1088-1154: the content of a delta is yielded at lines 1091-1098,
\* before the loop over its tool calls starts at line 1108.
WireChunkEvents(text, out) == text \o out

\* Lines 1079-1162: one iteration of `async for chunk in stream`.
WireOnChunk ==
    /\ machine = "wire"
    /\ pc = "loop"
    /\ Len(consumed) < MaxDeltas
    /\ \E chunk \in WireChunks :
         LET text == IF chunk.content # <<>>
                       THEN <<TextEvent(chunk.content, None)>> ELSE <<>>
             st == ToolCallLoop(
                     LoopState(tool_call_idx_to_buffer, delta, <<>>, FALSE),
                     chunk.tool_calls,
                     enable_incremental_tool_calls)
         IN  /\ consumed' = Append(consumed, chunk)
             /\ stop_reason' = WireStopReason(stop_reason, chunk.finish_reason)
             /\ warnings' = IF Len(chunk.tool_calls) > 1
                              THEN warnings + 1 ELSE warnings
             /\ events' = events \o WireChunkEvents(text, st.out)
             /\ emitted' = Append(emitted, WireChunkEvents(text, st.out))
             /\ tool_call_idx_to_buffer' = st.buffers
             /\ delta' = st.delta
             /\ pc' = IF st.raised THEN "raised" ELSE "loop"
    /\ UNCHANGED <<machine, callVars, pairVars, chatVars,
                   enable_incremental_tool_calls>>

\* The upstream stream ends (StopAsyncIteration).
WireStreamEnd ==
    /\ machine = "wire"
    /\ pc = "loop"
    /\ pc' = "finalize"
    /\ UNCHANGED <<machine, callVars, pairVars, events, stop_reason, consumed,
                   emitted, chatVars, wireVars>>

\* Lines 1166-1209 reporting the failure with the raw arguments in place of
\* the display buffer.
BufferEventsRawArguments(b) ==
    IF ~Truthy(b.name) THEN <<>>
    ELSE <<ToolTextEvent(<<")">>, "in_progress", None, b.idx),
           IF JsonValid(b.arguments)
             THEN ToolCallEvent([call_id |-> b.call_id, tool_name |-> b.name,
                                 arguments |-> JsonLoads(b.arguments)],
                                stop_reason, b.idx)
             ELSE ToolTextEvent(b.arguments, "failed", stop_reason, b.idx)>>

\* Lines 1166-1209: the events of one buffer at the end of the stream.
BufferEvents(b) ==
    IF ~Truthy(b.name) THEN <<>>
    ELSE <<ToolTextEvent(<<")">>, "in_progress", None, b.idx),
           IF JsonValid(b.arguments)
             THEN ToolCallEvent([call_id |-> b.call_id, tool_name |-> b.name,
                                 arguments |-> JsonLoads(b.arguments)],
                                stop_reason, b.idx)
             ELSE ToolTextEvent(b.content \o <<")">>, "failed", stop_reason,
                                b.idx)>>

\* Lines 1164-1217: finalise every buffer in insertion order, then complete.
WireFinish ==
    /\ machine = "wire"
    /\ pc = "finalize"
    /\ events' = events
         \o Concat([k \in 1..Len(tool_call_idx_to_buffer) |->
                      BufferEvents(tool_call_idx_to_buffer[k])])
         \o <<CompleteEvent(stop_reason)>>
    /\ tool_call_idx_to_buffer' =
         [k \in 1..Len(tool_call_idx_to_buffer) |->
            IF Truthy(tool_call_idx_to_buffer[k].name)
              THEN [tool_call_idx_to_buffer[k] EXCEPT !.content = @ \o <<")">>]
              ELSE tool_call_idx_to_buffer[k]]
    /\ pc' = "done"
    /\ UNCHANGED <<machine, callVars, pairVars, stop_reason, consumed,
                   emitted, chatVars, enable_incremental_tool_calls, delta,
                   warnings>>

NextWire == WireStart \/ WireOnChunk \/ WireStreamEnd \/ WireFinish

\* ---------------------------------------------------------------------------
\* generator frames
\* ---------------------------------------------------------------------------

\* The frame of the running generator: its arguments, its locals (lines
\* 394-396 and 1074-1077), where it stands, and the history kept about it.
Frame ==
    [machine |-> machine, pc |-> pc, events |-> events,
     stop_reason |-> stop_reason, consumed |-> consumed,
     emitted |-> emitted, buffer |-> buffer, ipython |-> ipython,
     request_tools |-> request_tools, decoded |-> decoded,
     enable_incremental_tool_calls |-> enable_incremental_tool_calls,
     tool_call_idx_to_buffer |-> tool_call_idx_to_buffer, delta |-> delta]

\* The frame of a generator that was created and not yet started.
FreshFrame(m, tools, incremental) ==
    [machine |-> m, pc |-> "init", events |-> <<>>, stop_reason |-> None,
     consumed |-> <<>>, emitted |-> <<>>, buffer |-> <<>>,
     ipython |-> FALSE, request_tools |-> tools, decoded |-> <<>>,
     enable_incremental_tool_calls |-> incremental,
     tool_call_idx_to_buffer |-> <<>>, delta |-> Unbound]

NoFrame == [FreshFrame("none", {}, FALSE) EXCEPT !.pc = "none"]

\* Suspended generators' progress seen by the other one (history): mark is
\* the other stream's chunk count when stream A was suspended midway, seen
\* whether that stream had advanced when A was resumed.
NoOverlap == [mark |-> -1, seen |-> FALSE]

\* buffer as one module-level accumulator instead of a generator local.
ModuleBuffer(f) == buffer

\* Lines 394-396: buffer is a local of the generator, kept in its frame.
FrameBuffer(f) == f.buffer

\* Lines 1074-1077: tool_call_idx_to_buffer is a local of the generator.
FrameToolCallBuffers(f) == f.tool_call_idx_to_buffer

\* The event loop resumes the generator whose frame is f.
Resume(f) ==
    /\ machine' = f.machine
    /\ pc' = f.pc
    /\ events' = f.events
    /\ stop_reason' = f.stop_reason
    /\ consumed' = f.consumed
    /\ emitted' = f.emitted
    /\ buffer' = FrameBuffer(f)
    /\ ipython' = f.ipython
    /\ request_tools' = f.request_tools
    /\ decoded' = f.decoded
    /\ enable_incremental_tool_calls' = f.enable_incremental_tool_calls
    /\ tool_call_idx_to_buffer' = FrameToolCallBuffers(f)
    /\ delta' = f.delta

\* ---------------------------------------------------------------------------
\* non-streaming responses
\* ---------------------------------------------------------------------------

\* A choice of an OpenAICompatCompletionResponse: its text (choice.text, or
\* choice.message.content), finish_reason and message.tool_calls (<<>> when
\* the message or its tool_calls are absent or empty).
Response(text, finish_reason, tool_calls) ==
    [text |-> text, finish_reason |-> finish_reason, tool_calls |-> tool_calls]

NoResponse == Response(<<>>, None, <<>>)

\* The value a call returned, or raised = TRUE when it raised.
Result(content, stop, tool_calls) ==
    [raised |-> FALSE, content |-> content, stop_reason |-> stop,
     tool_calls |-> tool_calls]

Raised ==
    [raised |-> TRUE, content |-> <<>>, stop_reason |-> None,
     tool_calls |-> <<>>]

NoResult == Result(<<>>, None, <<>>)

\* Lines 201-209 with the default of _convert_openai_finish_reason.
get_stop_reasonDefaultEndOfTurn(finish_reason) ==
    IF finish_reason \in {"stop", "eos"} THEN end_of_turn
    ELSE IF finish_reason = "eom" THEN end_of_message
    ELSE IF finish_reason = "length" THEN out_of_tokens
    ELSE end_of_turn

\* Lines 201-209.
get_stop_reason(finish_reason) ==
    IF finish_reason \in {"stop", "eos"} THEN end_of_turn
    ELSE IF finish_reason = "eom" THEN end_of_message
    ELSE IF finish_reason = "length" THEN out_of_tokens
    ELSE out_of_tokens

\* str.endswith(marker): the text ends with the marker token.
EndsWith(text, marker) == text # <<>> /\ text[Len(text)] = marker

\* text[: -len(marker)] for a text that ends with the marker.
DropSuffix(text) == SubSeq(text, 1, Len(text) - 1)

\* Lines 253-278 looking at the markers only when finish_reason is unset.
process_completion_responseFinishFirst(choice) ==
    IF choice.finish_reason = None /\ EndsWith(choice.text, EOT)
      THEN Result(DropSuffix(choice.text), end_of_turn, <<>>)
    ELSE IF choice.finish_reason = None /\ EndsWith(choice.text, EOM)
      THEN Result(DropSuffix(choice.text), end_of_message, <<>>)
    ELSE Result(choice.text, get_stop_reason(choice.finish_reason), <<>>)

\* Lines 253-278.
process_completion_response(choice) ==
    IF EndsWith(choice.text, EOT)
      THEN Result(DropSuffix(choice.text), end_of_turn, <<>>)
    ELSE IF EndsWith(choice.text, EOM)
      THEN Result(DropSuffix(choice.text), end_of_message, <<>>)
    ELSE Result(choice.text, get_stop_reason(choice.finish_reason), <<>>)

RECURSIVE TextsUpTo(_)
\* The completion texts of at most n tokens.
TextsUpTo(n) ==
    IF n = 0 THEN {<<>>}
    ELSE TextsUpTo(n - 1)
         \cup {Append(t, tok) : t \in TextsUpTo(n - 1),
                                tok \in {"hi", EOT, EOM}}

CompletionFinishReasons ==
    {None, "stop", "eos", "eom", "length", "content_filter"}

CompletionResponses ==
    {Response(t, f, <<>>) :
       t \in TextsUpTo(MaxTextLen), f \in CompletionFinishReasons}

\* The call process_completion_response(response).
ProcessCompletionResponse ==
    /\ machine = "completion"
    /\ pc = "init"
    /\ result' = process_completion_response(response)
    /\ pc' = "done"
    /\ UNCHANGED <<machine, response, shimVars, pairVars, events, stop_reason, consumed,
                   emitted, chatVars, wireVars>>

\* A ChatCompletionMessageToolCall: an id and a function (Fn or NoFunction).
MessageToolCall(id, function) == [id |-> id, function |-> function]

CallIds == <<"call_0", "call_1", "call_2">>

MessageFunctions ==
    { Fn("foo", <<"{}">>), Fn("bar", <<"{x:", "1}">>), Fn("foo", <<"{x:">>),
      NoFunction }

RECURSIVE MessageToolCallsUpTo(_)
\* The tool-call lists of at most n calls; the i-th call has the i-th id.
MessageToolCallsUpTo(n) ==
    IF n = 0 THEN {<<>>}
    ELSE MessageToolCallsUpTo(n - 1)
         \cup {Append(tc, MessageToolCall(CallIds[Len(tc) + 1], fn)) :
                 tc \in {t \in MessageToolCallsUpTo(n - 1) : Len(t) = n - 1},
                 fn \in MessageFunctions}

\* Lines 540-548 and the ToolCall of the datatypes: kind tells the class;
\* arguments is ToolCall.arguments (None for an UnparseableToolCall) and
\* arguments_text is ToolCall.arguments_json or UnparseableToolCall.arguments.
ConvertedToolCall(kind, call_id, tool_name, arguments, arguments_text) ==
    [kind |-> kind, call_id |-> call_id, tool_name |-> tool_name,
     arguments |-> arguments, arguments_text |-> arguments_text]

ConvertRaised == ConvertedToolCall("raised", "", "", None, <<>>)

\* Line 669: json.loads succeeds on the JSON object texts and on the JSON
\* number "1".
JsonDecodes(arguments) == JsonValid(arguments) \/ arguments = <<"1">>

JsonDecoded(arguments) ==
    IF arguments = <<"1">> THEN "1" ELSE JsonLoads(arguments)

\* The validation of ToolCall(call_id, tool_name, arguments): call_id and
\* tool_name are strings and arguments is a mapping.
ToolCallAccepts(call_id, tool_name, arguments) ==
    call_id # None /\ tool_name # None /\ arguments \in {"{}", "{x:1}"}

\* Lines 658-680.  With function = None the except branch itself reads
\* tool_call.function.name, so the AttributeError leaves the function.
convert_tool_call(tool_call) ==
    IF ~tool_call.function.present THEN ConvertRaised
    ELSE IF /\ JsonDecodes(tool_call.function.arguments)
            /\ ToolCallAccepts(tool_call.id, tool_call.function.name,
                               JsonDecoded(tool_call.function.arguments))
      THEN ConvertedToolCall("ToolCall", tool_call.id,
                             tool_call.function.name,
                             JsonDecoded(tool_call.function.arguments),
                             tool_call.function.arguments)
      ELSE ConvertedToolCall("UnparseableToolCall",
                             Or(tool_call.id, ""),
                             Or(tool_call.function.name, ""),
                             None, tool_call.function.arguments)

\* Line 295: json.dumps(tool_calls, default=model_dump), as tokens.
JsonDumps(tool_calls) ==
    <<"[">>
    \o Concat([k \in 1..Len(tool_calls) |->
                 <<"{", tool_calls[k].call_id, tool_calls[k].tool_name>>
                 \o tool_calls[k].arguments_text \o <<"}">>])
    \o <<"]">>

\* Lines 291-299 keeping the tool calls that did parse as structured calls.
UnparseableResponsePartial(tool_calls) ==
    Result(JsonDumps(tool_calls), end_of_turn,
           SelectSeq(tool_calls, LAMBDA t : t.kind = "ToolCall"))

\* Lines 291-299: a tool call did not parse; all are returned as text.
UnparseableResponse(tool_calls) ==
    Result(JsonDumps(tool_calls), end_of_turn, <<>>)

\* Lines 301-310 returning only the first tool call.
StructuredResponseFirstOnly(tool_calls) ==
    Result(<<>>, end_of_turn, <<Head(tool_calls)>>)

\* Lines 301-310: every tool call parsed.
StructuredResponse(tool_calls) == Result(<<>>, end_of_turn, tool_calls)

\* The content of the message decode_assistant_message returns.
DecodedContent(text) ==
    IF decode_assistant_message(text) # <<>> THEN <<>> ELSE text

\* Lines 312-344 without the filter against request.tools.
DecodedResponseUnfiltered(choice, tools) ==
    Result(DecodedContent(text_from_choice(choice)),
           get_stop_reason(choice.finish_reason),
           decode_assistant_message(text_from_choice(choice)))

\* Lines 312-344: finish_reason is not "tool_calls".
DecodedResponse(choice, tools) ==
    LET stop == get_stop_reason(choice.finish_reason)
        calls == decode_assistant_message(text_from_choice(choice))
        kept == SelectSeq(calls, LAMBDA t : t.tool_name \in tools)
    IN  IF calls = <<>>
          THEN Result(DecodedContent(text_from_choice(choice)), stop, <<>>)
        ELSE IF tools = {}
          THEN Result(text_from_choice(choice), stop, <<>>)
        ELSE IF Len(kept) < Len(calls)
          THEN Result(text_from_choice(choice), stop, kept)
        ELSE Result(DecodedContent(text_from_choice(choice)), stop, calls)

\* Lines 290-310: the tool calls of the message, converted.
ToolCallsResponse(choice) ==
    LET tool_calls ==
          [k \in 1..Len(choice.tool_calls) |->
             convert_tool_call(choice.tool_calls[k])]
    IN  IF \E k \in 1..Len(tool_calls) : tool_calls[k].kind = "raised"
          THEN Raised
        ELSE IF \E k \in 1..Len(tool_calls) :
                  tool_calls[k].kind = "UnparseableToolCall"
          THEN UnparseableResponse(tool_calls)
        ELSE StructuredResponse(tool_calls)

\* Lines 281-344 answering a message without tool calls from its text.
process_chat_completion_responseTextFallback(choice, tools) ==
    IF choice.finish_reason = "tool_calls" /\ choice.tool_calls # <<>>
      THEN ToolCallsResponse(choice)
      ELSE DecodedResponse(choice, tools)

\* Lines 281-344.
process_chat_completion_response(choice, tools) ==
    IF choice.finish_reason = "tool_calls"
      THEN IF choice.tool_calls = <<>> THEN Raised
           ELSE ToolCallsResponse(choice)
      ELSE DecodedResponse(choice, tools)

ChatResponseTexts ==
    { <<>>, <<"hi">>, <<"foo(", "x=1)">>,
      <<"foo(", "x=1)", "bar(", "x=1)">>,
      <<"bar(", "x=1)", "foo(", "x=1)">> }

ChatResponseFinishReasons == {None, "stop", "length", "tool_calls"}

ChatResponses ==
    {Response(t, f, tc) :
       t \in ChatResponseTexts, f \in ChatResponseFinishReasons,
       tc \in MessageToolCallsUpTo(MaxToolCalls)}

\* The call process_chat_completion_response(response, request).
ProcessChatCompletionResponse ==
    /\ machine = "chat_response"
    /\ pc = "init"
    /\ result' = process_chat_completion_response(response, request_tools)
    /\ pc' = IF result'.raised THEN "raised" ELSE "done"
    /\ UNCHANGED <<machine, response, shimVars, pairVars, events, stop_reason, consumed,
                   emitted, chatVars, wireVars>>

\* The wire tool calls handed to convert_tool_call: id, function, name and
\* arguments may each be missing.
WireToolCalls ==
    { MessageToolCall(id, fn) :
        id \in {None, "call_0", "call_1"},
        fn \in {NoFunction}
               \cup { Fn(name, arguments) :
                        name \in {None, "foo", "bar"},
                        arguments \in { <<>>, <<"{}">>, <<"{x:", "1}">>,
                                        <<"{x:">>, <<"1}">>, <<"1">> } } }

\* The call convert_tool_call(tool_call); response.tool_calls holds the one
\* tool call, result.tool_calls the value returned.
ConvertToolCall ==
    /\ machine = "convert_tool_call"
    /\ pc = "init"
    /\ LET converted == convert_tool_call(response.tool_calls[1])
       IN  result' = IF converted.kind = "raised" THEN Raised
                     ELSE Result(<<>>, None, <<converted>>)
    /\ pc' = IF result'.raised THEN "raised" ELSE "done"
    /\ UNCHANGED <<machine, response, shimVars, pairVars, events, stop_reason,
                   consumed, emitted, chatVars, wireVars>>

\* ---------------------------------------------------------------------------
\* convert_openai_completion_logprobs
\* ---------------------------------------------------------------------------

\* An Optional value: <<>> is None, <<v>> is the value v.
Some(v) == <<v>>

RECURSIVE SeqsUpTo(_, _)
\* The sequences of at most n elements of S.
SeqsUpTo(S, n) ==
    IF n = 0 THEN {<<>>}
    ELSE SeqsUpTo(S, n - 1)
         \cup {Append(q, x) : q \in SeqsUpTo(S, n - 1), x \in S}

Optionals(S) == {<<>>} \cup {Some(v) : v \in S}

\* A top-k mapping of one position: token -> log-probability (negated).
TopMappings == { [t \in {"a"} |-> 1], [t \in {"a", "b"} |-> 2] }

\* The argument logprobs: None (present = FALSE) or an object with the
\* Optional fields of OpenAICompatLogprobs (lines 132-139).  has_top_logprobs
\* is hasattr(logprobs, "top_logprobs"): TRUE for every OpenAICompatLogprobs,
\* whose class declares the field, FALSE for an object of another class.
Logprobs(has_top_logprobs, top_logprobs, tokens, token_logprobs) ==
    [present |-> TRUE, has_top_logprobs |-> has_top_logprobs,
     top_logprobs |-> top_logprobs, tokens |-> tokens,
     token_logprobs |-> token_logprobs]

NoLogprobs ==
    [present |-> FALSE, has_top_logprobs |-> FALSE, top_logprobs |-> <<>>,
     tokens |-> <<>>, token_logprobs |-> <<>>]

LogprobsInputs ==
    {NoLogprobs}
    \cup { Logprobs(TRUE, top, tokens, lps) :
             top \in Optionals(SeqsUpTo(TopMappings, MaxPositions)),
             tokens \in Optionals(SeqsUpTo({"a", "b"}, MaxPositions)),
             lps \in Optionals(SeqsUpTo({1, 2}, MaxPositions)) }
    \cup { Logprobs(FALSE, <<>>, tokens, lps) :
             tokens \in Optionals(SeqsUpTo({"a", "b"}, MaxPositions)),
             lps \in Optionals(SeqsUpTo({1, 2}, MaxPositions)) }

\* The value returned: None (null = TRUE) or a list of TokenLogProbs, each
\* given by its logprobs_by_token mapping; raised when the call raised.
LogprobsResult(raised, null, items) ==
    [raised |-> raised, null |-> null, items |-> items]

Min(a, b) == IF a <= b THEN a ELSE b

\* Lines 223-227: zip(tokens, token_logprobs, strict=False).
ZipTokenLogprobs(tokens, token_logprobs) ==
    [k \in 1..Min(Len(tokens), Len(token_logprobs)) |->
       [t \in {tokens[k]} |-> token_logprobs[k]]]

\* Lines 212-228.  Iterating top_logprobs = None at line 218 is a TypeError.
convert_openai_completion_logprobs(logprobs) ==
    IF ~logprobs.present THEN LogprobsResult(FALSE, TRUE, <<>>)
    ELSE IF logprobs.has_top_logprobs
      THEN IF logprobs.top_logprobs = <<>>
             THEN LogprobsResult(TRUE, TRUE, <<>>)
             ELSE LogprobsResult(FALSE, FALSE, logprobs.top_logprobs[1])
    ELSE IF /\ logprobs.tokens # <<>> /\ logprobs.tokens[1] # <<>>
            /\ logprobs.token_logprobs # <<>>
            /\ logprobs.token_logprobs[1] # <<>>
      THEN LogprobsResult(FALSE, FALSE,
                          ZipTokenLogprobs(logprobs.tokens[1],
                                           logprobs.token_logprobs[1]))
    ELSE LogprobsResult(FALSE, TRUE, <<>>)

\* The call convert_openai_completion_logprobs(response).
ConvertLogprobs ==
    /\ machine = "logprobs"
    /\ pc = "init"
    /\ result' = convert_openai_completion_logprobs(response)
    /\ pc' = IF result'.raised THEN "raised" ELSE "done"
    /\ UNCHANGED <<machine, response, shimVars, pairVars, events, stop_reason,
                   consumed, emitted, chatVars, wireVars>>

\* ---------------------------------------------------------------------------
\* OpenAICompletionToLlamaStackMixin.openai_completion
\* ---------------------------------------------------------------------------

\* The arguments stream, n and prompt.  stream is "None", "False" or "True";
\* an Optional[int] is <<>> when None and <<v>> when v; a prompt that is not
\* a list is is_list = FALSE with the one prompt in items.
Request(stream, n, is_list, items) ==
    [stream |-> stream, n |-> n, is_list |-> is_list, items |-> items]

NoRequest == Request(None, <<>>, FALSE, <<>>)

\* The locals of openai_completion: prompts, n, the loop variable _i, the
\* position in prompts, choices; invoked lists the content argument of
\* every call of self.completion, in call order (history).
Shim(prompts, n, i, k, choices, invoked) ==
    [prompts |-> prompts, n |-> n, i |-> i, k |-> k, choices |-> choices,
     invoked |-> invoked]

NoShim == Shim(<<>>, 0, 0, 1, <<>>, <<>>)

\* Python truthiness of an Optional[int].
TruthyInt(x) == x # <<>> /\ x[1] # 0

OptionalInts(n) == {<<>>} \cup {<<v>> : v \in 0..n}

\* Lines 797-805.
_convert_stop_reason_to_openai_finish_reason(stop) ==
    IF stop = end_of_turn THEN "stop"
    ELSE IF stop = end_of_message THEN "tool_calls"
    ELSE IF stop = out_of_tokens THEN "length"
    ELSE "stop"

PromptTexts == <<"p1", "p2", "p3">>

\* The prompt lists of at most n prompts.
PromptLists(n) == { SubSeq(PromptTexts, 1, len) : len \in 0..n }

ShimRequests ==
    { Request(s, n, FALSE, <<"p0">>) :
        s \in {None, "False", "True"}, n \in OptionalInts(MaxN) }
    \cup { Request(s, n, TRUE, items) :
             s \in {None, "False", "True"}, n \in OptionalInts(MaxN),
             items \in PromptLists(MaxPrompts) }

\* self.completion(model_id, content, sampling_params): the operation of the
\* host class, a blocking call that returns a content and a stop reason.
completion(content, stop) ==
    [content |-> <<"re:", content>>, stop_reason |-> stop]

\* Lines 1261-1262 without the test of stream.
ShimRejectsNever(stream) == FALSE

\* Lines 1261-1262: `if stream: raise ValueError`.
ShimRejects(stream) == stream = "True"

\* Line 1275 counting n as given.
CompletionsPerPromptAsGiven(n) == IF n = <<>> THEN 0 ELSE n[1]

\* Line 1275: n = n or 1.
CompletionsPerPrompt(n) == IF TruthyInt(n) THEN n[1] ELSE 1

\* Lines 1261-1275: up to the first iteration of the loops.
ShimStart ==
    /\ machine = "completion_shim"
    /\ pc = "init"
    /\ IF ShimRejects(request.stream)
         THEN /\ pc' = "raised"
              /\ shim' = shim
         ELSE /\ pc' = "loop"
              /\ shim' = Shim(request.items, CompletionsPerPrompt(request.n),
                              0, 1, <<>>, <<>>)
    /\ UNCHANGED <<machine, request, response, result, pairVars, events,
                   stop_reason, consumed, emitted, chatVars, wireVars>>

\* Lines 1276-1296: one iteration of `for prompt in prompts`, which calls
\* self.completion once and appends one choice.
ShimInvoke ==
    /\ machine = "completion_shim"
    /\ pc = "loop"
    /\ shim.i < shim.n
    /\ shim.k <= Len(shim.prompts)
    /\ \E stop \in StopReason :
         LET prompt == shim.prompts[shim.k]
             completed == completion(prompt, stop)
             choice ==
               [index |-> Len(shim.choices), text |-> completed.content,
                finish_reason |->
                  _convert_stop_reason_to_openai_finish_reason(
                    completed.stop_reason)]
             last == shim.k = Len(shim.prompts)
         IN  shim' = [shim EXCEPT
                        !.invoked = Append(@, prompt),
                        !.choices = Append(@, choice),
                        !.k = IF last THEN 1 ELSE @ + 1,
                        !.i = IF last THEN @ + 1 ELSE @]
    /\ UNCHANGED <<machine, pc, request, response, result, pairVars, events,
                   stop_reason, consumed, emitted, chatVars, wireVars>>

\* Lines 1298-1304: both loops are exhausted; the response is returned.
ShimReturn ==
    /\ machine = "completion_shim"
    /\ pc = "loop"
    /\ shim.i >= shim.n \/ shim.prompts = <<>>
    /\ pc' = "done"
    /\ UNCHANGED <<machine, request, shim, response, result, pairVars, events,
                   stop_reason, consumed, emitted, chatVars, wireVars>>

NextShim == ShimStart \/ ShimInvoke \/ ShimReturn

\* ---------------------------------------------------------------------------
\* sampling parameters: get_sampling_strategy_options (lines 154-166) and
\* _convert_openai_sampling_params (lines 953-975)
\* ---------------------------------------------------------------------------

\* A float is counted in tenths: 0.0 is 0, 0.7 is 7, 1.0 is 10.
Tenths == 0..MaxTenths

\* One sampling strategy.  type is "greedy", "top_p" or "top_k"; the fields a
\* variant does not have are <<>>.
Strategy(type, temperature, top_p, top_k) ==
    [type |-> type, temperature |-> temperature, top_p |-> top_p,
     top_k |-> top_k]

GreedySamplingStrategy == Strategy("greedy", <<>>, <<>>, <<>>)

TopPSamplingStrategy(temperature, top_p) ==
    Strategy("top_p", Some(temperature), Some(top_p), <<>>)

TopKSamplingStrategy(top_k) == Strategy("top_k", <<>>, <<>>, Some(top_k))

\* SamplingParams: the strategy and the Optional max_tokens; SamplingParams()
\* has the greedy strategy and no max_tokens.
SamplingParams(strategy, max_tokens) ==
    [strategy |-> strategy, max_tokens |-> max_tokens]

Strategies ==
    {GreedySamplingStrategy}
      \cup {TopPSamplingStrategy(t, p) : t \in Tenths, p \in Tenths}
      \cup {TopKSamplingStrategy(k) : k \in 1..MaxTopK}

\* The wire options: a key the dict does not hold is <<>>.
Options(temperature, top_p, top_k) ==
    [raised |-> FALSE, temperature |-> temperature, top_p |-> top_p,
     top_k |-> top_k]

OptionsRaised == [Options(<<>>, <<>>, <<>>) EXCEPT !.raised = TRUE]

\* Lines 154-166.
get_sampling_strategy_options(params) ==
    IF params.strategy.type = "greedy" THEN Options(Some(0), <<>>, <<>>)
    ELSE IF params.strategy.type = "top_p"
      THEN Options(params.strategy.temperature, params.strategy.top_p, <<>>)
    ELSE IF params.strategy.type = "top_k"
      THEN Options(<<>>, <<>>, params.strategy.top_k)
    ELSE OptionsRaised

\* The value OpenAI assumes for an unset temperature or top_p: 1.0.
DefaultTenths == 10

\* A plausible slip: every falsy temperature, None included, is greedy.
_convert_openai_sampling_paramsGreedyWhenUnset(max_tokens, temperature, top_p) ==
    SamplingParams(
      IF ~TruthyInt(temperature) THEN GreedySamplingStrategy
      ELSE TopPSamplingStrategy(
             temperature[1], IF top_p = <<>> THEN DefaultTenths ELSE top_p[1]),
      IF TruthyInt(max_tokens) THEN max_tokens ELSE <<>>)

\* Lines 953-975.  The three arguments are Optional; line 960 tests the
\* truth value of max_tokens, line 964 compares temperature with 0 before
\* the defaults of lines 968-971 apply.
_convert_openai_sampling_params(max_tokens, temperature, top_p) ==
    SamplingParams(
      IF temperature = Some(0) THEN GreedySamplingStrategy
      ELSE TopPSamplingStrategy(
             IF temperature = <<>> THEN DefaultTenths ELSE temperature[1],
             IF top_p = <<>> THEN DefaultTenths ELSE top_p[1]),
      IF TruthyInt(max_tokens) THEN max_tokens ELSE <<>>)

\* The arguments of one call of _convert_openai_sampling_params.
SamplingArguments ==
    [max_tokens : Optionals(0..MaxTokens), temperature : Optionals(Tenths),
     top_p : Optionals(Tenths)]

ConvertSamplingParams ==
    /\ machine = "sampling"
    /\ pc = "init"
    /\ result' = _convert_openai_sampling_params(
                   request.max_tokens, request.temperature, request.top_p)
    /\ pc' = "done"
    /\ UNCHANGED <<machine, request, shim, response, pairVars, events,
                   stop_reason, consumed, emitted, chatVars, wireVars>>

\* The round trip: request is a canonical SamplingParams, shim the wire
\* options made of it, result the SamplingParams made of the options'
\* temperature and top_p (dict.get: None for a key the dict does not hold).
ToWire ==
    /\ machine = "sampling_round_trip"
    /\ pc = "init"
    /\ shim' = get_sampling_strategy_options(request)
    /\ pc' = IF shim'.raised THEN "raised" ELSE "wire"
    /\ UNCHANGED <<machine, request, response, result, pairVars, events,
                   stop_reason, consumed, emitted, chatVars, wireVars>>

FromWire ==
    /\ machine = "sampling_round_trip"
    /\ pc = "wire"
    /\ result' = _convert_openai_sampling_params(
                   <<>>, shim.temperature, shim.top_p)
    /\ pc' = "done"
    /\ UNCHANGED <<machine, request, shim, response, pairVars, events,
                   stop_reason, consumed, emitted, chatVars, wireVars>>

NextRoundTrip == ToWire \/ FromWire

\* ---------------------------------------------------------------------------
\* Eval API backward compatibility: the five resolvers of
\* src/src/llama_stack_api/eval/compat.py
\* ---------------------------------------------------------------------------

\* The request classes, built as the tests build them: the constructor keeps
\* the keyword arguments as fields.
RunEvalRequest(benchmark_id, benchmark_config) ==
    [class |-> "RunEvalRequest", benchmark_id |-> benchmark_id,
     benchmark_config |-> benchmark_config]

EvaluateRowsRequest(benchmark_id, input_rows, scoring_functions, config) ==
    [class |-> "EvaluateRowsRequest", benchmark_id |-> benchmark_id,
     input_rows |-> input_rows, scoring_functions |-> scoring_functions,
     benchmark_config |-> config]

JobStatusRequest(benchmark_id, job_id) ==
    [class |-> "JobStatusRequest", benchmark_id |-> benchmark_id,
     job_id |-> job_id]

JobCancelRequest(benchmark_id, job_id) ==
    [class |-> "JobCancelRequest", benchmark_id |-> benchmark_id,
     job_id |-> job_id]

JobResultRequest(benchmark_id, job_id) ==
    [class |-> "JobResultRequest", benchmark_id |-> benchmark_id,
     job_id |-> job_id]

\* The arguments of one resolver call; each is Optional, <<>> when None.  A
\* resolver's signature has only some of the legacy parameters: the others
\* stay <<>>.
EvalArguments(resolver, req, benchmark_id, config, rows, functions, job_id) ==
    [resolver |-> resolver, request |-> req, benchmark_id |-> benchmark_id,
     benchmark_config |-> config, input_rows |-> rows,
     scoring_functions |-> functions, job_id |-> job_id]

\* What a call gives: the request returned (<<>> when it raised ValueError)
\* and the warnings it emitted.
Resolved(req, warned) ==
    [raised |-> FALSE, value |-> Some(req), warned |-> warned]

ResolveRaised == [raised |-> TRUE, value |-> <<>>, warned |-> <<>>]

\* A plausible slip: the warning is built and never emitted.
_emit_deprecation_warningSilent(method_name, request_class) == <<>>

\* Lines 35-41: one DeprecationWarning whose message is _DEPRECATION_MESSAGE
\* (lines 28-32) filled with the method name and the request class.  The
\* warnings are recorded as under simplefilter("always").
_emit_deprecation_warning(method_name, request_class) ==
    << [category |-> "DeprecationWarning", method_name |-> method_name,
        request_class |-> request_class] >>

\* A plausible slip: the legacy parameters are looked at first, so they win
\* over a request object passed with them.
resolve_run_eval_requestLegacyFirst(args) ==
    IF args.benchmark_id # <<>> /\ args.benchmark_config # <<>>
      THEN Resolved(RunEvalRequest(args.benchmark_id[1],
                                   args.benchmark_config[1]),
                    _emit_deprecation_warning("run_eval", "RunEvalRequest"))
    ELSE IF args.request # <<>> THEN Resolved(args.request[1], <<>>)
    ELSE ResolveRaised

\* Lines 44-75.
resolve_run_eval_request(args) ==
    IF args.request # <<>> THEN Resolved(args.request[1], <<>>)
    ELSE IF args.benchmark_id # <<>> /\ args.benchmark_config # <<>>
      THEN Resolved(RunEvalRequest(args.benchmark_id[1],
                                   args.benchmark_config[1]),
                    _emit_deprecation_warning("run_eval", "RunEvalRequest"))
    ELSE ResolveRaised

\* Lines 78-123.
resolve_evaluate_rows_request(args) ==
    IF args.request # <<>> THEN Resolved(args.request[1], <<>>)
    ELSE IF /\ args.benchmark_id # <<>>
            /\ args.input_rows # <<>>
            /\ args.scoring_functions # <<>>
            /\ args.benchmark_config # <<>>
      THEN Resolved(EvaluateRowsRequest(args.benchmark_id[1],
                                        args.input_rows[1],
                                        args.scoring_functions[1],
                                        args.benchmark_config[1]),
                    _emit_deprecation_warning("evaluate_rows",
                                              "EvaluateRowsRequest"))
    ELSE ResolveRaised

\* A plausible slip: the warning is emitted as soon as the old style is
\* recognised, before the legacy parameters are checked.
resolve_job_status_requestWarnFirst(args) ==
    IF args.request # <<>> THEN Resolved(args.request[1], <<>>)
    ELSE IF args.benchmark_id # <<>> /\ args.job_id # <<>>
      THEN Resolved(JobStatusRequest(args.benchmark_id[1], args.job_id[1]),
                    _emit_deprecation_warning("job_status",
                                              "JobStatusRequest"))
    ELSE [ResolveRaised EXCEPT
            !.warned = _emit_deprecation_warning("job_status",
                                                 "JobStatusRequest")]

\* Lines 126-157.
resolve_job_status_request(args) ==
    IF args.request # <<>> THEN Resolved(args.request[1], <<>>)
    ELSE IF args.benchmark_id # <<>> /\ args.job_id # <<>>
      THEN Resolved(JobStatusRequest(args.benchmark_id[1], args.job_id[1]),
                    _emit_deprecation_warning("job_status",
                                              "JobStatusRequest"))
    ELSE ResolveRaised

\* Lines 160-191.
resolve_job_cancel_request(args) ==
    IF args.request # <<>> THEN Resolved(args.request[1], <<>>)
    ELSE IF args.benchmark_id # <<>> /\ args.job_id # <<>>
      THEN Resolved(JobCancelRequest(args.benchmark_id[1], args.job_id[1]),
                    _emit_deprecation_warning("job_cancel",
                                              "JobCancelRequest"))
    ELSE ResolveRaised

\* Lines 194-225.
resolve_job_result_request(args) ==
    IF args.request # <<>> THEN Resolved(args.request[1], <<>>)
    ELSE IF args.benchmark_id # <<>> /\ args.job_id # <<>>
      THEN Resolved(JobResultRequest(args.benchmark_id[1], args.job_id[1]),
                    _emit_deprecation_warning("job_result",
                                              "JobResultRequest"))
    ELSE ResolveRaised

\* The values the arguments are drawn from.
BenchmarkIds == {"bench-1", "bench-2"}

JobIds == {"job-1", "job-2"}

BenchmarkConfigs == {"config-1"}

ScoringFunctions == {<<"func1">>}

\* The non-empty lists of at most MaxRows rows.
InputRows == SeqsUpTo({"row"}, MaxRows) \ {<<>>}

\* The calls of each resolver: the request object is of the resolver's
\* class or None, every legacy parameter of its signature is given or None.
RunEvalCalls ==
    {EvalArguments("resolve_run_eval_request", req, b, c, <<>>, <<>>, <<>>) :
       req \in Optionals({RunEvalRequest(rb, rc) :
                            rb \in BenchmarkIds, rc \in BenchmarkConfigs}),
       b \in Optionals(BenchmarkIds), c \in Optionals(BenchmarkConfigs)}

EvaluateRowsCalls ==
    {EvalArguments("resolve_evaluate_rows_request", req, b, c, rows, f, <<>>) :
       req \in Optionals({EvaluateRowsRequest(rb, rr, rf, rc) :
                            rb \in BenchmarkIds, rr \in InputRows,
                            rf \in ScoringFunctions,
                            rc \in BenchmarkConfigs}),
       b \in Optionals(BenchmarkIds), c \in Optionals(BenchmarkConfigs),
       rows \in Optionals(InputRows), f \in Optionals(ScoringFunctions)}

JobCalls(resolver, cls) ==
    {EvalArguments(resolver, req, b, <<>>, <<>>, <<>>, j) :
       req \in Optionals({[class |-> cls, benchmark_id |-> rb, job_id |-> rj] :
                            rb \in BenchmarkIds, rj \in JobIds}),
       b \in Optionals(BenchmarkIds), j \in Optionals(JobIds)}

EvalCalls ==
    RunEvalCalls \cup EvaluateRowsCalls
      \cup JobCalls("resolve_job_status_request", "JobStatusRequest")
      \cup JobCalls("resolve_job_cancel_request", "JobCancelRequest")
      \cup JobCalls("resolve_job_result_request", "JobResultRequest")

\* The resolver a call names, applied to the call's arguments.
resolve(args) ==
    CASE args.resolver = "resolve_run_eval_request" ->
           resolve_run_eval_request(args)
      [] args.resolver = "resolve_evaluate_rows_request" ->
           resolve_evaluate_rows_request(args)
      [] args.resolver = "resolve_job_status_request" ->
           resolve_job_status_request(args)
      [] args.resolver = "resolve_job_cancel_request" ->
           resolve_job_cancel_request(args)
      [] args.resolver = "resolve_job_result_request" ->
           resolve_job_result_request(args)

\* One call: result holds the returned request, warnings the warnings
\* recorded since the call began.
Resolve ==
    /\ machine = "eval"
    /\ pc = "init"
    /\ result' = resolve(request)
    /\ warnings' = warnings \o result'.warned
    /\ pc' = IF result'.raised THEN "raised" ELSE "done"
    /\ UNCHANGED <<machine, request, response, shim, pairVars, events,
                   stop_reason, consumed, emitted, chatVars,
                   enable_incremental_tool_calls, tool_call_idx_to_buffer,
                   delta>>

\* ---------------------------------------------------------------------------
\* OpenAIChatCompletionToLlamaStackMixin: openai_chat_completion with
\* stream=True (lines 1308-1360) and _process_stream_response (1366-1407)
\* ---------------------------------------------------------------------------

\* The locals of the two functions: n is len(outstanding_responses), r the
\* position of the for loop in it (0 before the first), i the local i;
\* taken lists the events read from the responses and chunks the wire chunks
\* yielded, in order (history).
ChatShim(n, r, i, taken, chunks) ==
    [n |-> n, r |-> r, i |-> i, taken |-> taken, chunks |-> chunks]

\* OpenAIChatCompletionChunk with its one choice.  delta is "content" or
\* "tool_calls"; response and event are history: the response the chunk was
\* derived from and the canonical event.
WireChoiceChunk(index, finish_reason, field, r, event) ==
    [index |-> index, finish_reason |-> finish_reason, delta |-> field,
     response |-> r, event |-> event]

\* The events self.chat_completion(stream=True) may yield: the operation of
\* the host class, an async generator of canonical events.
chat_completion ==
    {StartEvent, TextEvent(<<"a">>, None),
     ToolTextEvent(<<"a">>, "in_progress", None, -1),
     ToolCallEvent([call_id |-> "c1", tool_name |-> "foo",
                    arguments |-> "{}"], None, -1),
     CompleteEvent(end_of_message)}

\* Lines 1373-1405: the chunks yielded for one event of response r.
StreamChunks(event, i, r) ==
    LET finish_reason ==
          _convert_stop_reason_to_openai_finish_reason(event.stop_reason)
    IN  IF event.delta_type = "text"
          THEN <<WireChoiceChunk(i, finish_reason, "content", r, event)>>
        ELSE IF event.parse_status = "succeeded"
          THEN <<WireChoiceChunk(i, finish_reason, "tool_calls", r, event)>>
        ELSE <<>>

\* Lines 1343-1360: n = n or 1, one call of self.chat_completion per
\* completion asked for, and the generator of _process_stream_response is
\* returned.
ChatShimStart ==
    /\ machine = "chat_shim"
    /\ pc = "init"
    /\ shim' = ChatShim(IF TruthyInt(request.n) THEN request.n[1] ELSE 1,
                        0, 0, <<>>, <<>>)
    /\ pc' = "next"
    /\ UNCHANGED <<machine, request, response, result, pairVars, events,
                   stop_reason, consumed, emitted, chatVars, wireVars>>

\* Lines 1370-1372: the next outstanding response is awaited, i = 0.
ChatShimAwait ==
    /\ machine = "chat_shim"
    /\ pc = "next"
    /\ shim.r < shim.n
    /\ shim' = [shim EXCEPT !.r = @ + 1, !.i = 0]
    /\ pc' = "stream"
    /\ UNCHANGED <<machine, request, response, result, pairVars, events,
                   stop_reason, consumed, emitted, chatVars, wireVars>>

\* Lines 1373-1405: one iteration of `async for chunk in response`.
ChatShimChunk ==
    /\ machine = "chat_shim"
    /\ pc = "stream"
    /\ Len(shim.taken) < MaxEvents
    /\ \E event \in chat_completion :
         shim' = [shim EXCEPT
                    !.taken = Append(@, event),
                    !.chunks = @ \o StreamChunks(event, shim.i, shim.r),
                    !.i = @ + 1]
    /\ UNCHANGED <<machine, pc, request, response, result, pairVars, events,
                   stop_reason, consumed, emitted, chatVars, wireVars>>

\* The response awaited ends (StopAsyncIteration).
ChatShimResponseEnd ==
    /\ machine = "chat_shim"
    /\ pc = "stream"
    /\ pc' = "next"
    /\ UNCHANGED <<machine, request, shim, response, result, pairVars, events,
                   stop_reason, consumed, emitted, chatVars, wireVars>>

\* Every outstanding response was read: the generator ends.
ChatShimReturn ==
    /\ machine = "chat_shim"
    /\ pc = "next"
    /\ shim.r >= shim.n
    /\ pc' = "done"
    /\ UNCHANGED <<machine, request, shim, response, result, pairVars, events,
                   stop_reason, consumed, emitted, chatVars, wireVars>>

NextChatShim ==
    \/ ChatShimStart
    \/ ChatShimAwait
    \/ ChatShimChunk
    \/ ChatShimResponseEnd
    \/ ChatShimReturn

\* ---------------------------------------------------------------------------
\* process_completion_stream_response (lines 347-380)
\* ---------------------------------------------------------------------------

\* choice.logprobs when it is a float (Together's CompletionChoicesChunk).
FloatLogprobs(v) == [present |-> TRUE, float |-> v]

\* Lines 242-250.  Iterating top_logprobs = None at line 249 is a TypeError.
convert_openai_completion_logprobs_stream(text, logprobs) ==
    IF ~logprobs.present THEN LogprobsResult(FALSE, TRUE, <<>>)
    ELSE IF "float" \in DOMAIN logprobs
      THEN LogprobsResult(FALSE, FALSE, <<[t \in {text} |-> logprobs.float]>>)
    ELSE IF logprobs.has_top_logprobs
      THEN IF logprobs.top_logprobs = <<>>
             THEN LogprobsResult(TRUE, TRUE, <<>>)
             ELSE LogprobsResult(FALSE, FALSE, logprobs.top_logprobs[1])
    ELSE LogprobsResult(FALSE, TRUE, <<>>)

\* One upstream chunk: chunk.choices[0] reduced to its text, finish_reason
\* and logprobs.
CompletionStreamChunks ==
    [text : {<<>>, <<"hi">>, <<EOT>>, <<EOM>>},
     finish_reason : {None, "stop", "length", "tool_calls"},
     logprobs : {NoLogprobs, FloatLogprobs(1),
                 Logprobs(TRUE, Some(<<[t \in {"a"} |-> 1]>>), <<>>, <<>>),
                 Logprobs(TRUE, <<>>, Some(<<"a">>), Some(<<1>>))}]

\* CompletionResponseStreamChunk(delta, stop_reason).
CompletionResponseStreamChunk(text, stop) ==
    [delta |-> text, stop_reason |-> stop]

\* Lines 356-368: what one iteration yields for a chunk that is no marker.
CompletionChunkEvents(chunk, stop) ==
    <<CompletionResponseStreamChunk(text_from_choice(chunk), stop)>>

\* Line 350.
CompletionStreamStart ==
    /\ machine = "completion_stream"
    /\ pc = "init"
    /\ stop_reason' = None
    /\ pc' = "loop"
    /\ UNCHANGED <<machine, callVars, pairVars, events, consumed, emitted,
                   chatVars, wireVars>>

\* Lines 352-374: one iteration of `async for chunk in stream`.
CompletionStreamChunk ==
    /\ machine = "completion_stream"
    /\ pc = "loop"
    /\ Len(consumed) < MaxCompletionChunks
    /\ \E chunk \in CompletionStreamChunks :
         LET text == text_from_choice(chunk)
             finish_reason == chunk.finish_reason
         IN  /\ consumed' = Append(consumed, chunk)
             /\ IF text = <<EOT>> \/ text = <<EOM>>
                  THEN \* lines 357-364
                       /\ stop_reason' = IF text = <<EOT>> THEN end_of_turn
                                         ELSE end_of_message
                       /\ pc' = "loop"
                       /\ emitted' = Append(emitted, <<>>)
                       /\ UNCHANGED events
                  ELSE IF convert_openai_completion_logprobs_stream(
                            text, chunk.logprobs).raised
                  THEN \* line 368
                       /\ pc' = "raised"
                       /\ emitted' = Append(emitted, <<>>)
                       /\ UNCHANGED <<events, stop_reason>>
                  ELSE \* lines 365-374
                       /\ events' =
                            events \o CompletionChunkEvents(chunk, stop_reason)
                       /\ emitted' =
                            Append(emitted,
                                   CompletionChunkEvents(chunk, stop_reason))
                       /\ stop_reason' =
                            IF Truthy(finish_reason)
                              THEN FinishStopReasonUnguarded(stop_reason,
                                                             finish_reason)
                              ELSE stop_reason
                       /\ pc' = IF Truthy(finish_reason) THEN "final"
                                ELSE "loop"
    /\ UNCHANGED <<machine, callVars, pairVars, chatVars, wireVars>>

\* The upstream stream ends (StopAsyncIteration) without a finish_reason.
CompletionStreamEnd ==
    /\ machine = "completion_stream"
    /\ pc = "loop"
    /\ pc' = "final"
    /\ UNCHANGED <<machine, callVars, pairVars, events, stop_reason, consumed,
                   emitted, chatVars, wireVars>>

\* Lines 376-379: the final chunk.
CompletionStreamFinal ==
    /\ machine = "completion_stream"
    /\ pc = "final"
    /\ events' = Append(events, CompletionResponseStreamChunk(<<>>, stop_reason))
    /\ pc' = "done"
    /\ UNCHANGED <<machine, callVars, pairVars, stop_reason, consumed,
                   emitted, chatVars, wireVars>>

NextCompletionStream ==
    \/ CompletionStreamStart
    \/ CompletionStreamChunk
    \/ CompletionStreamEnd
    \/ CompletionStreamFinal

\* ---------------------------------------------------------------------------
\* CaptumExplanationImpl.batch_explain and its job handler
\* (src/llama_stack/providers/inline/explanation/captum_explanation/
\* captum_explanation.py, lines 143-186)
\* ---------------------------------------------------------------------------

\* The arguments content, algorithm and target of batch_explain.  An item of
\* content is "good" when the attribution of it succeeds and "bad" when it
\* raises; target is <<>> when None and <<list>> when a list.
ExplainArguments(content, algorithm, target) ==
    [content |-> content, algorithm |-> algorithm, target |-> target]

\* The scheduler and the job: jobs is the set of job ids the scheduler
\* knows, i the position of the handler's loop (0-based), statuses, artifacts
\* and logs what the handler passed to its three callbacks, in call order.
Job(jobs, i, statuses, artifacts, logs) ==
    [jobs |-> jobs, i |-> i, statuses |-> statuses, artifacts |-> artifacts,
     logs |-> logs]

\* What batch_explain gave: the job id returned, <<>> when it raised.
Explained(raised, job_uuid) == [raised |-> raised, job_uuid |-> job_uuid]

\* str(uuid.uuid4()): an id no job of the scheduler has.
NewJobId == "job-new"

\* Lines 85-141: explain raises ValueError for an algorithm that is none of
\* the three (line 132), and whatever the attribution of the item raises
\* (line 134); otherwise it returns the explanation of the item.
explain(item, algorithm, target) ==
    IF algorithm \notin {"fa", "shap", "shap_sampling"}
      THEN [raised |-> TRUE, explanation |-> <<>>]
    ELSE IF item.attributable
      THEN [raised |-> FALSE,
            explanation |-> <<[item |-> item.name, target |-> target]>>]
    ELSE [raised |-> TRUE, explanation |-> <<>>]

\* Lines 75-83.
_explanation_to_artifact(explanation) ==
    [type |-> "explanation", name |-> "explanation", metadata |-> explanation]

\* A plausible slip: `if target is not None and len(target) != len(content)`.
TargetMismatchNotNone(target, content) ==
    target # <<>> /\ Len(target[1]) # Len(content)

\* Line 156: `target and len(target) != len(content)`.
TargetMismatch(target, content) ==
    /\ target # <<>>
    /\ target[1] # <<>>
    /\ Len(target[1]) # Len(content)

\* A plausible slip: the except clause logs and re-raises without reporting
\* the failed status.
HandlerExceptUnreported(job) ==
    [job EXCEPT !.logs = Append(@, "error")]

\* Lines 180-183: the except clause logs, reports failed and re-raises.
HandlerExcept(job) ==
    [job EXCEPT !.logs = Append(@, "error"),
                !.statuses = Append(@, "failed")]

\* Lines 154-157 and 185-186: the id is drawn, the target list is checked,
\* the handler is scheduled and the job returned.
BatchExplain ==
    /\ machine = "batch_explain"
    /\ pc = "init"
    /\ IF TargetMismatch(request.target, request.content)
         THEN /\ result' = Explained(TRUE, <<>>)
              /\ shim' = shim
              /\ pc' = "raised"
         ELSE /\ result' = Explained(FALSE, Some(NewJobId))
              /\ shim' = [shim EXCEPT !.jobs = @ \cup {NewJobId}]
              /\ pc' = "scheduled"
    /\ UNCHANGED <<machine, request, response, pairVars, events, stop_reason,
                   consumed, emitted, chatVars, wireVars>>

\* Lines 160-162: the scheduler runs the handler, which logs and reports
\* running.
HandlerStart ==
    /\ machine = "batch_explain"
    /\ pc = "scheduled"
    /\ shim' = [shim EXCEPT !.logs = Append(@, "starting"),
                            !.statuses = Append(@, "running")]
    /\ pc' = "items"
    /\ UNCHANGED <<machine, request, response, result, pairVars, events,
                   stop_reason, consumed, emitted, chatVars, wireVars>>

\* Lines 164-176: one iteration of `for i, item in enumerate(content)`; an
\* exception of explain is handled at lines 180-183.
HandlerItem ==
    /\ machine = "batch_explain"
    /\ pc = "items"
    /\ shim.i < Len(request.content)
    /\ LET item == request.content[shim.i + 1]
           target == IF request.target # <<>> /\ request.target[1] # <<>>
                       THEN request.target[1][shim.i + 1]
                       ELSE None
           explanation == explain(item, request.algorithm, target)
           logged == [shim EXCEPT !.logs = Append(@, "processing")]
       IN  IF explanation.raised
             THEN /\ shim' = HandlerExcept(logged)
                  /\ pc' = "failed"
             ELSE /\ shim' =
                       [logged EXCEPT
                          !.artifacts =
                            Append(@, _explanation_to_artifact(
                                        explanation.explanation[1])),
                          !.i = @ + 1]
                  /\ pc' = "items"
    /\ UNCHANGED <<machine, request, response, result, pairVars, events,
                   stop_reason, consumed, emitted, chatVars, wireVars>>

\* Lines 178-179: the loop is over; completed is reported and logged.
HandlerComplete ==
    /\ machine = "batch_explain"
    /\ pc = "items"
    /\ shim.i >= Len(request.content)
    /\ shim' = [shim EXCEPT !.statuses = Append(@, "completed"),
                            !.logs = Append(@, "completed")]
    /\ pc' = "completed"
    /\ UNCHANGED <<machine, request, response, result, pairVars, events,
                   stop_reason, consumed, emitted, chatVars, wireVars>>

NextBatchExplain ==
    BatchExplain \/ HandlerStart \/ HandlerItem \/ HandlerComplete

\* The content lists of at most MaxItems items and the target lists.
ExplainItems ==
    {[name |-> "good", attributable |-> TRUE],
     [name |-> "bad", attributable |-> FALSE]}

ExplainCalls ==
    {ExplainArguments(content, algorithm, target) :
       content \in SeqsUpTo(ExplainItems, MaxItems),
       algorithm \in {"fa", "shap", "shap_sampling", "lime"},
       target \in Optionals(SeqsUpTo({"t"}, MaxItems))}

\* ---------------------------------------------------------------------------
\* specifications
\* ---------------------------------------------------------------------------

Machines == {"chat", "wire"}

Init ==
    /\ machine \in Machines
    /\ pc = "init"
    /\ events = <<>>
    /\ stop_reason = None
    /\ consumed = <<>>
    /\ emitted = <<>>
    /\ buffer = <<>>
    /\ ipython = FALSE
    /\ request_tools \in (IF machine = "chat" THEN RequestTools ELSE {{}})
    /\ decoded = <<>>
    /\ enable_incremental_tool_calls \in
         (IF machine = "wire" THEN BOOLEAN ELSE {FALSE})
    /\ tool_call_idx_to_buffer = <<>>
    /\ delta = Unbound
    /\ warnings = 0
    /\ response = NoResponse
    /\ result = NoResult
    /\ request = NoRequest
    /\ shim = NoShim
    /\ phase = "alone"
    /\ running = "A"
    /\ parked = NoFrame
    /\ solo = NoFrame
    /\ overlap = NoOverlap

Next == NextChat \/ NextWire

Spec == Init /\ [][Next]_vars

InitChat == Init /\ machine = "chat"

SpecChat == InitChat /\ [][NextChat]_vars

InitWire == Init /\ machine = "wire"

SpecWire == InitWire /\ [][NextWire]_vars

\* ---------------------------------------------------------------------------
\* two generators consumed together
\* ---------------------------------------------------------------------------

IsPrefix(a, b) == Len(a) <= Len(b) /\ SubSeq(b, 1, Len(a)) = a

PairChatChunks ==
    { [text |-> <<PY>>, finish_reason |-> None],
      [text |-> <<"bar(", "x=1)">>, finish_reason |-> None],
      [text |-> <<"hi">>, finish_reason |-> None],
      [text |-> <<EOT>>, finish_reason |-> "length"] }

PairWireChunks ==
    { WireChunk(None, <<"hi">>, <<Frag(0, Fn("foo", <<>>))>>),
      WireChunk(None, <<>>, <<Frag(0, Fn(None, <<"{x:">>))>>),
      WireChunk("length", <<>>, <<>>) }

\* The arguments of the generators: a chat stream whose request declares
\* foo, a wire stream with incremental tool calls.
PairArguments(m) ==
    IF m = "chat" THEN [tools |-> {"foo"}, incremental |-> FALSE]
                  ELSE [tools |-> {}, incremental |-> TRUE]

\* The upstream streams fed to the two generators.
PairInput ==
    consumed' # consumed =>
        /\ Len(consumed') <= MaxPairChunks
        /\ IF machine = "chat"
             THEN consumed'[Len(consumed')] \in PairChatChunks
             ELSE consumed'[Len(consumed')] \in PairWireChunks

\* One generator consumed alone, to its end.
AloneStep ==
    /\ phase = "alone"
    /\ Next
    /\ PairInput

\* The run alone is recorded; a generator with the same arguments (stream A)
\* and a second generator (stream B) are created.
StartPair ==
    /\ phase = "alone"
    /\ pc \in {"done", "raised"}
    /\ solo' = Frame
    /\ phase' = "pair"
    /\ running' = "A"
    /\ overlap' = NoOverlap
    /\ Resume(FreshFrame(machine, request_tools,
                         enable_incremental_tool_calls))
    /\ \E m \in Machines :
         parked' = FreshFrame(m, PairArguments(m).tools,
                              PairArguments(m).incremental)
    /\ warnings' = 0
    /\ UNCHANGED callVars

\* Stream A takes a step; its upstream yields the chunks of the run alone.
StepA ==
    /\ phase = "pair"
    /\ running = "A"
    /\ Next
    /\ PairInput
    /\ IsPrefix(consumed', solo.consumed)
    /\ (pc = "loop" /\ consumed' = consumed) => consumed = solo.consumed

\* Stream B takes a step on an upstream of its own.
StepB ==
    /\ phase = "pair"
    /\ running = "B"
    /\ Next
    /\ PairInput

\* The running generator is suspended at its yield or await and the event
\* loop resumes the other one.
Switch ==
    /\ phase = "pair"
    /\ parked.pc # "abandoned"
    /\ Resume(parked)
    /\ parked' = Frame
    /\ running' = IF running = "A" THEN "B" ELSE "A"
    /\ overlap' =
         IF running = "A"
           THEN [overlap EXCEPT
                   !.mark = IF pc = "loop" /\ consumed # <<>>
                              THEN Len(parked.consumed) ELSE -1]
           ELSE [mark |-> -1,
                 seen |-> \/ overlap.seen
                          \/ overlap.mark >= 0 /\ Len(consumed) > overlap.mark]
    /\ UNCHANGED <<warnings, callVars, phase, solo>>

\* The consumer of stream B abandons it while suspended: the generator is
\* closed where it stands and never resumed (neither function has a finally).
Abandon ==
    /\ phase = "pair"
    /\ running = "A"
    /\ parked.pc \in {"init", "loop", "decode", "finalize"}
    /\ parked' = [parked EXCEPT !.pc = "abandoned"]
    /\ UNCHANGED <<machine, pc, events, stop_reason, consumed, emitted,
                   chatVars, wireVars, callVars, phase, running, solo,
                   overlap>>

NextPair == AloneStep \/ StartPair \/ StepA \/ StepB \/ Switch \/ Abandon

InitPair ==
    /\ Init
    /\ request_tools = PairArguments(machine).tools
    /\ enable_incremental_tool_calls = PairArguments(machine).incremental

SpecPair == InitPair /\ [][NextPair]_vars

\* The streaming variables of a behaviour that makes a non-streaming call.
NoStream ==
    /\ pc = "init"
    /\ events = <<>>
    /\ stop_reason = None
    /\ consumed = <<>>
    /\ emitted = <<>>
    /\ buffer = <<>>
    /\ ipython = FALSE
    /\ decoded = <<>>
    /\ enable_incremental_tool_calls = FALSE
    /\ tool_call_idx_to_buffer = <<>>
    /\ delta = Unbound
    /\ warnings = 0
    /\ result = NoResult
    /\ shim = NoShim
    /\ phase = "alone"
    /\ running = "A"
    /\ parked = NoFrame
    /\ solo = NoFrame
    /\ overlap = NoOverlap

InitCompletion ==
    /\ machine = "completion"
    /\ NoStream
    /\ request = NoRequest
    /\ request_tools = {}
    /\ response \in CompletionResponses

SpecCompletion == InitCompletion /\ [][ProcessCompletionResponse]_vars

InitChatResponse ==
    /\ machine = "chat_response"
    /\ NoStream
    /\ request = NoRequest
    /\ request_tools \in RequestTools
    /\ response \in ChatResponses

SpecChatResponse ==
    InitChatResponse /\ [][ProcessChatCompletionResponse]_vars

InitConvert ==
    /\ machine = "convert_tool_call"
    /\ NoStream
    /\ request = NoRequest
    /\ request_tools = {}
    /\ response \in {Response(<<>>, None, <<tc>>) : tc \in WireToolCalls}

SpecConvert == InitConvert /\ [][ConvertToolCall]_vars

InitLogprobs ==
    /\ machine = "logprobs"
    /\ NoStream
    /\ request = NoRequest
    /\ request_tools = {}
    /\ response \in LogprobsInputs

SpecLogprobs == InitLogprobs /\ [][ConvertLogprobs]_vars

InitShim ==
    /\ machine = "completion_shim"
    /\ NoStream
    /\ request_tools = {}
    /\ response = NoResponse
    /\ request \in ShimRequests

SpecShim == InitShim /\ [][NextShim]_vars

InitSampling ==
    /\ machine = "sampling"
    /\ NoStream
    /\ request_tools = {}
    /\ response = NoResponse
    /\ request \in SamplingArguments

SpecSampling == InitSampling /\ [][ConvertSamplingParams]_vars

InitRoundTrip ==
    /\ machine = "sampling_round_trip"
    /\ NoStream
    /\ request_tools = {}
    /\ response = NoResponse
    /\ request \in {SamplingParams(strategy, <<>>) : strategy \in Strategies}

SpecRoundTrip == InitRoundTrip /\ [][NextRoundTrip]_vars

InitEval ==
    /\ machine = "eval"
    /\ pc = "init"
    /\ events = <<>>
    /\ stop_reason = None
    /\ consumed = <<>>
    /\ emitted = <<>>
    /\ buffer = <<>>
    /\ ipython = FALSE
    /\ decoded = <<>>
    /\ request_tools = {}
    /\ enable_incremental_tool_calls = FALSE
    /\ tool_call_idx_to_buffer = <<>>
    /\ delta = Unbound
    /\ warnings = <<>>
    /\ response = NoResponse
    /\ result = NoResult
    /\ shim = NoShim
    /\ phase = "alone"
    /\ running = "A"
    /\ parked = NoFrame
    /\ solo = NoFrame
    /\ overlap = NoOverlap
    /\ request \in EvalCalls

SpecEval == InitEval /\ [][Resolve]_vars

InitChatShim ==
    /\ machine = "chat_shim"
    /\ NoStream
    /\ request_tools = {}
    /\ response = NoResponse
    /\ request \in {Request("True", n, FALSE, <<>>) : n \in OptionalInts(MaxN)}

SpecChatShim == InitChatShim /\ [][NextChatShim]_vars

InitCompletionStream ==
    /\ machine = "completion_stream"
    /\ NoStream
    /\ request_tools = {}
    /\ response = NoResponse
    /\ request = NoRequest

SpecCompletionStream == InitCompletionStream /\ [][NextCompletionStream]_vars

InitBatchExplain ==
    /\ machine = "batch_explain"
    /\ pc = "init"
    /\ events = <<>>
    /\ stop_reason = None
    /\ consumed = <<>>
    /\ emitted = <<>>
    /\ buffer = <<>>
    /\ ipython = FALSE
    /\ decoded = <<>>
    /\ request_tools = {}
    /\ enable_incremental_tool_calls = FALSE
    /\ tool_call_idx_to_buffer = <<>>
    /\ delta = Unbound
    /\ warnings = 0
    /\ response = NoResponse
    /\ result = NoResult
    /\ phase = "alone"
    /\ running = "A"
    /\ parked = NoFrame
    /\ solo = NoFrame
    /\ overlap = NoOverlap
    /\ request \in ExplainCalls
    /\ shim \in {Job(jobs, 0, <<>>, <<>>, <<>>) : jobs \in {{}, {"job-old"}}}

SpecBatchExplain == InitBatchExplain /\ [][NextBatchExplain]_vars

\* ---------------------------------------------------------------------------
\* properties
\* ---------------------------------------------------------------------------

Last(seq) == seq[Len(seq)]

CountType(type) ==
    Cardinality({k \in 1..Len(events) : events[k].event_type = type})

\* The generator has returned or raised: nothing more will be yielded.
Terminated == pc \in {"done", "raised"}

\* Position of the first consumed chunk with a non-empty finish_reason
\* (0 when there is none).
FirstFinish ==
    IF \E k \in 1..Len(consumed) : Truthy(consumed[k].finish_reason)
      THEN CHOOSE k \in 1..Len(consumed) :
             /\ Truthy(consumed[k].finish_reason)
             /\ \A j \in 1..(k - 1) : ~Truthy(consumed[j].finish_reason)
      ELSE 0

\* C1: for every finite upstream chunk sequence, each chat streaming machine
\* emits exactly one start event and exactly one complete event; start is
\* the first event emitted and complete is the last.
C1_OneStartOneComplete ==
    Terminated =>
        /\ CountType("start") = 1
        /\ CountType("complete") = 1
        /\ events[1].event_type = "start"
        /\ Last(events).event_type = "complete"

\* C2: in the wire machine the stop reason carried by the complete event is
\* the translation of the first non-null finish_reason seen anywhere in the
\* stream; chunks arriving after it do not change it.
C2_FirstFinishReasonWins ==
    (machine = "wire" /\ pc = "done" /\ FirstFinish > 0) =>
        Last(events).stop_reason =
            _convert_openai_finish_reason(consumed[FirstFinish].finish_reason)

\* The mapping table of section 4.3 of the specification.
ChatFinishTable(finish_reason) ==
    CASE finish_reason \in {"stop", "eos", "eos_token"} -> end_of_turn
      [] finish_reason = "length" -> out_of_tokens
      [] OTHER -> None

InChatFinishTable(finish_reason) ==
    finish_reason \in {"stop", "eos", "eos_token", "length"}

\* The stop reasons of the chunks before position k that are exactly a stop
\* marker, in arrival order.
MarkerReasonsBefore(k) ==
    LET reason(text) == IF text = <<EOT>> THEN <<end_of_turn>>
                        ELSE IF text = <<EOM>> THEN <<end_of_message>>
                        ELSE <<>>
    IN  Concat([j \in 1..(k - 1) |-> reason(consumed[j].text)])

\* C3 as stated: in process_chat_completion_stream_response the stop reason
\* on the complete event equals the table image of the first non-empty
\* finish_reason seen in the stream, and nothing processed before or after
\* that chunk overrides it.
C3_FinishReasonTableImage ==
    (machine = "chat" /\ pc = "done" /\ FirstFinish > 0
       /\ InChatFinishTable(consumed[FirstFinish].finish_reason)) =>
        Last(events).stop_reason =
            ChatFinishTable(consumed[FirstFinish].finish_reason)

\* C3 amended: the stop reason on the complete event equals the table image
\* of the first non-empty finish_reason when no chunk that is exactly a stop
\* marker was processed before it; when one was, the stop reason of the last
\* such marker stands.  Nothing processed after that chunk overrides it.
C3_FinishReasonUnlessMarker ==
    (machine = "chat" /\ pc = "done" /\ FirstFinish > 0
       /\ InChatFinishTable(consumed[FirstFinish].finish_reason)) =>
        Last(events).stop_reason =
            IF MarkerReasonsBefore(FirstFinish) = <<>>
              THEN ChatFinishTable(consumed[FirstFinish].finish_reason)
              ELSE Last(MarkerReasonsBefore(FirstFinish))

\* C3 witness: a finished stream where an end-of-message marker chunk
\* preceded a finish_reason of "length" and the marker's stop reason stood.
C3_Witness ==
    /\ machine = "chat" /\ pc = "done" /\ FirstFinish = 2
    /\ consumed[1].text = <<EOM>>
    /\ consumed[2].finish_reason = "length"
    /\ Last(events).event_type = "complete"
    /\ Last(events).stop_reason = end_of_message

\* C4: for every finite upstream chunk sequence fed to
\* process_chat_completion_stream_response the complete event carries a
\* non-null stop_reason.
C4_CompleteStopReasonNonNull ==
    (machine = "chat" /\ pc = "done") =>
        /\ Last(events).event_type = "complete"
        /\ Last(events).stop_reason \in StopReason

\* Every tool-call fragment of the consumed deltas, in arrival order.
AllFragments == Concat([k \in 1..Len(consumed) |-> consumed[k].tool_calls])

FragmentsOf(idx) == SelectSeq(AllFragments, LAMBDA f : f.index = idx)

ArgumentTextOf(idx) ==
    Concat([k \in 1..Len(FragmentsOf(idx)) |->
              FragmentsOf(idx)[k].function.arguments])

\* The in_progress fragments emitted for a tool-call index, concatenated in
\* emission order.
InProgressTextOf(idx) ==
    LET frags == SelectSeq(events, LAMBDA e : e.parse_status = "in_progress"
                                                /\ e.idx = idx)
    IN  Concat([k \in 1..Len(frags) |-> frags[k].text])

\* The name of a tool-call index arrives once, with its first fragment.
NamedOnceFirst(idx) ==
    /\ FragmentsOf(idx) # <<>>
    /\ Truthy(FragmentsOf(idx)[1].function.name)
    /\ \A k \in 2..Len(FragmentsOf(idx)) :
         ~Truthy(FragmentsOf(idx)[k].function.name)

\* C5: in the wire machine with incremental tool calls enabled, for every
\* tool-call index and every way the name and argument text are split
\* across deltas, the concatenation in emission order of the in_progress
\* fragments emitted for that index equals name + "(" + arguments + ")".
C5_InProgressConcatenation ==
    (machine = "wire" /\ pc = "done" /\ enable_incremental_tool_calls) =>
        \A idx \in {0, 1} :
            NamedOnceFirst(idx) =>
                InProgressTextOf(idx) =
                    <<FragmentsOf(idx)[1].function.name, "(">>
                        \o ArgumentTextOf(idx) \o <<")">>

\* A tool-call index that the consumed deltas carry only behind another
\* fragment of the same delta.
OnlyBehindFirst(idx) ==
    /\ \E k \in 1..Len(consumed) :
         \E i \in 2..Len(consumed[k].tool_calls) :
             consumed[k].tool_calls[i].index = idx
    /\ \A k \in 1..Len(consumed) :
         consumed[k].tool_calls # <<>> =>
             consumed[k].tool_calls[1].index # idx

\* C6: in the wire machine, when a single delta carries more than one
\* tool-call fragment, only the first is processed and a warning is emitted:
\* no buffer is created and no event is ever produced for the others'
\* indices.
C6_OnlyFirstFragmentProcessed ==
    machine = "wire" =>
        /\ (\E k \in 1..Len(consumed) : Len(consumed[k].tool_calls) > 1)
              => warnings > 0
        /\ \A idx \in {0, 1} :
             OnlyBehindFirst(idx) =>
                 /\ ~HasBuffer(tool_call_idx_to_buffer, idx)
                 /\ \A k \in 1..Len(events) : events[k].idx # idx

\* Scenario D of the specification.
ScenarioD ==
    << [text |-> <<PY>>, finish_reason |-> None],
       [text |-> <<"foo(">>, finish_reason |-> None],
       [text |-> <<"x=1)">>, finish_reason |-> "stop"] >>

\* C7: on scenario D with tool foo declared, the whole text foo(x=1) is
\* decoded, the text of the chunk that carries the finish_reason included,
\* and a succeeded tool-call event with tool_name foo and arguments {x: 1}
\* is emitted.
C7_ScenarioD ==
    (machine = "chat" /\ pc = "done" /\ consumed = ScenarioD
       /\ "foo" \in request_tools) =>
        /\ decoded = << <<PY, "foo(", "x=1)">> >>
        /\ \E k \in 1..Len(events) :
             /\ events[k].parse_status = "succeeded"
             /\ events[k].tool_call.tool_name = "foo"
             /\ events[k].tool_call.arguments = "{x:1}"

\* The payloads of the emitted text and in_progress events, in emission
\* order.
EmittedPayload ==
    LET frags == SelectSeq(events,
                   LAMBDA e : /\ e.event_type = "progress"
                              /\ \/ e.delta_type = "text"
                                 \/ e.parse_status = "in_progress")
    IN  Concat([k \in 1..Len(frags) |-> frags[k].text])

\* Position of the chunk that switched the stream to tool-call mode (0 when
\* none did).
FirstToolMarker ==
    IF \E k \in 1..Len(consumed) : StartsWith(consumed[k].text, PY)
      THEN CHOOSE k \in 1..Len(consumed) :
             /\ StartsWith(consumed[k].text, PY)
             /\ \A j \in 1..(k - 1) : ~StartsWith(consumed[j].text, PY)
      ELSE 0

\* The upstream text up to and including the first chunk with a
\* finish_reason, the leading tool-call marker excepted.
UpstreamText ==
    LET n == IF FirstFinish > 0 THEN FirstFinish ELSE Len(consumed)
    IN  Concat([k \in 1..n |->
                  IF k = FirstToolMarker THEN Tail(consumed[k].text)
                                         ELSE consumed[k].text])

NoStopMarkerUpstream ==
    \A k \in 1..Len(consumed) :
        ~Contains(consumed[k].text, EOT) /\ ~Contains(consumed[k].text, EOM)

\* C8: process_chat_completion_stream_response drops no chunk silently: for
\* a stream without stop marker, the concatenated payloads of the emitted
\* text and in_progress events equal the concatenated texts of the upstream
\* chunks up to and including the first one with a finish_reason (the
\* leading tool-call marker excepted).
C8_NoChunkDropped ==
    (machine = "chat" /\ pc = "done" /\ NoStopMarkerUpstream) =>
        EmittedPayload = UpstreamText

\* Position of the chunk whose leading tool-call marker was processed, that
\* is, the first chunk without finish_reason that begins with the marker
\* (0 when there is none).
ModeSwitch ==
    LET switches(k) == /\ StartsWith(consumed[k].text, PY)
                       /\ ~Truthy(consumed[k].finish_reason)
    IN  IF \E k \in 1..Len(consumed) : switches(k)
          THEN CHOOSE k \in 1..Len(consumed) :
                 switches(k) /\ \A j \in 1..(k - 1) : ~switches(j)
          ELSE 0

\* C9: once a chunk whose text begins with the tool-call marker has been
\* processed, a started tool-call event with empty payload is emitted
\* immediately, and from then on no plain-text progress event is emitted:
\* every later non-empty, non-marker chunk produces exactly one in_progress
\* tool-call event carrying that chunk's text.
C9_ToolCallMode ==
    machine = "chat" =>
        \A k \in 1..Len(consumed) :
            /\ k = ModeSwitch =>
                 /\ Len(emitted[k]) = 1
                 /\ emitted[k][1].parse_status = "started"
                 /\ emitted[k][1].text = <<>>
            /\ (ModeSwitch > 0 /\ k > ModeSwitch) =>
                 /\ \A i \in 1..Len(emitted[k]) :
                      emitted[k][i].delta_type # "text"
                 /\ (consumed[k].text \notin {<<>>, <<EOT>>, <<EOM>>, <<PY>>}) =>
                      /\ Len(emitted[k]) = 1
                      /\ emitted[k][1].parse_status = "in_progress"
                      /\ emitted[k][1].text = consumed[k].text

\* The stop reasons of the markers the upstream text contains.
UpstreamMarkerReasons ==
    { r \in StopReason :
        \E k \in 1..Len(consumed) :
            \/ r = end_of_turn /\ Contains(consumed[k].text, EOT)
            \/ r = end_of_message /\ Contains(consumed[k].text, EOM) }

\* C10: for every placement of an end-of-turn or end-of-message marker in
\* the upstream text, alone in a chunk or together with other text, no
\* emitted text or tool-call fragment contains the marker, and the marker's
\* stop reason is recorded for the stream.
C10_MarkersStripped ==
    machine = "chat" =>
        /\ \A k \in 1..Len(events) :
             ~Contains(events[k].text, EOT) /\ ~Contains(events[k].text, EOM)
        /\ (pc = "done" /\ UpstreamMarkerReasons # {}) =>
             Last(events).stop_reason \in UpstreamMarkerReasons

\* The events of a terminated chat stream that report a parse result.
TerminalPositions ==
    {k \in 1..Len(events) : events[k].parse_status \in {"succeeded", "failed"}}

\* C11: at the end of a process_chat_completion_stream_response stream each
\* tool call returned by the decoder produces exactly one terminal event, in
\* decoder order and before complete: succeeded carrying the structured call
\* when its tool name is among the request's declared tools, otherwise
\* failed carrying the whole accumulated raw buffer text.
C11_OneTerminalEventPerToolCall ==
    (machine = "chat" /\ pc = "done") =>
        LET calls == decode_assistant_message(decoded[1])
            n == Len(calls)
            base == Len(events) - 1 - n
        IN  n > 0 =>
              /\ base >= 1
              /\ TerminalPositions = (base + 1)..(base + n)
              /\ \A i \in 1..n :
                   LET e == events[base + i]
                   IN  IF calls[i].tool_name \in request_tools
                         THEN /\ e.parse_status = "succeeded"
                              /\ e.tool_call = calls[i]
                         ELSE /\ e.parse_status = "failed"
                              /\ e.tool_call = NoCall
                              /\ e.text = decoded[1]

\* C11 witness: a finished stream whose buffer decoded to two tool calls,
\* the first declared by the request and the second not.
C11_Witness ==
    /\ machine = "chat" /\ pc = "done"
    /\ request_tools = {"foo"}
    /\ Len(decode_assistant_message(decoded[1])) = 2
    /\ decode_assistant_message(decoded[1])[1].tool_name = "foo"
    /\ decode_assistant_message(decoded[1])[2].tool_name = "bar"
    /\ events[Len(events) - 2].parse_status = "succeeded"
    /\ events[Len(events) - 1].parse_status = "failed"

\* The events that report a parse failure with empty payload.
EmptyFailedPositions ==
    {k \in 1..Len(events) :
        events[k].parse_status = "failed" /\ events[k].text = <<>>}

\* C12: at the end of a process_chat_completion_stream_response stream the
\* accumulated buffer is decoded exactly once; if the stream entered
\* tool-call mode and the decoder returns zero tool calls, exactly one failed
\* event with empty payload is emitted before complete, and if the stream
\* never entered tool-call mode no such empty failed event is emitted.
C12_DecodeOnceAndParseFailure ==
    machine = "chat" =>
        /\ Len(decoded) = (IF pc = "done" THEN 1 ELSE 0)
        /\ pc = "done" =>
             /\ decoded[1] = buffer
             /\ (ModeSwitch > 0 /\ decode_assistant_message(buffer) = <<>>) =>
                  EmptyFailedPositions = {Len(events) - 1}
             /\ ModeSwitch = 0 => EmptyFailedPositions = {}

\* C12 witness: a finished stream that entered tool-call mode and whose
\* buffer holds no tool call.
C12_Witness ==
    /\ machine = "chat" /\ pc = "done" /\ ModeSwitch > 0
    /\ decode_assistant_message(buffer) = <<>>
    /\ Len(buffer) > 1
    /\ events[Len(events) - 1].parse_status = "failed"

\* C13: in convert_openai_chat_completion_stream, when one delta carries both
\* text content and a tool-call fragment, a text event with that content is
\* emitted first, as its own event, and every tool-call event derived from
\* that delta is emitted after it.
C13_ContentBeforeToolCall ==
    machine = "wire" =>
        \A k \in 1..Len(consumed) :
            (consumed[k].content # <<>> /\ consumed[k].tool_calls # <<>>) =>
                /\ Len(emitted[k]) >= 1
                /\ emitted[k][1] = TextEvent(consumed[k].content, None)
                /\ \A j \in 2..Len(emitted[k]) :
                     /\ emitted[k][j].delta_type = "tool_call"
                     /\ emitted[k][j].text # consumed[k].content

\* C13 witness: a delta with content and a tool-call fragment produced a text
\* event followed by a tool-call event.
C13_Witness ==
    /\ machine = "wire"
    /\ \E k \in 1..Len(consumed) :
         /\ consumed[k].content # <<>> /\ consumed[k].tool_calls # <<>>
         /\ Len(emitted[k]) = 2
         /\ emitted[k][2].delta_type = "tool_call"

\* The buffers whose name was resolved, in insertion order.
NamedBuffers == SelectSeq(tool_call_idx_to_buffer, LAMBDA b : Truthy(b.name))

\* The events yielded after the loop over the upstream chunks.
FinalEvents ==
    SubSeq(events, 2 + Len(Concat(emitted)), Len(events))

ArgumentsEverywhere ==
    \A k \in 1..Len(AllFragments) :
        /\ AllFragments[k].function.present
        /\ AllFragments[k].function.arguments # <<>>

\* C15: in convert_openai_chat_completion_stream, with incremental tool
\* calls enabled or disabled, tool-call argument text that is not valid JSON
\* (including a partial fragment) never raises an exception to the consumer:
\* it surfaces as a failed parse-status event and the stream still ends with
\* the complete event.
C15_MalformedJsonNeverRaises ==
    (machine = "wire" /\ ArgumentsEverywhere) => pc # "raised"

EveryToolCallParses ==
    /\ response.tool_calls # <<>>
    /\ \A k \in 1..Len(response.tool_calls) :
         /\ response.tool_calls[k].function.present
         /\ JsonValid(response.tool_calls[k].function.arguments)

\* C19: process_chat_completion_response with finish_reason "tool_calls" and
\* a request that declares zero tools returns zero structured tool calls and
\* a non-empty content equal to the raw message text.
C19_NoToolsDeclared ==
    (/\ machine = "chat_response" /\ pc = "done"
     /\ response.finish_reason = "tool_calls"
     /\ EveryToolCallParses
     /\ response.text # <<>>
     /\ request_tools = {}) =>
        /\ result.tool_calls = <<>>
        /\ result.content = response.text

StreamA == IF running = "A" THEN Frame ELSE parked

StreamB == IF running = "B" THEN Frame ELSE parked

\* C16: two stream instances share no mutable state: for any interleaving
\* of the steps of two concurrently consumed streams (of either chat
\* streaming machine), the event sequence each stream emits is identical to
\* the one it emits when run alone on the same chunks, and abandoning one
\* stream midway does not change the other's output.
C16_StreamsIndependent ==
    phase = "pair" =>
        /\ IsPrefix(StreamA.events, solo.events)
        /\ IsPrefix(StreamA.consumed, solo.consumed)
        /\ StreamA.pc \in {"done", "raised"} =>
             /\ StreamA.events = solo.events
             /\ StreamA.consumed = solo.consumed
             /\ StreamA.pc = solo.pc
             /\ StreamA.stop_reason = solo.stop_reason

\* C16 witness: stream A ended on two chunks with a tool-call event, stream B
\* advanced while A was suspended midway and was abandoned in its loop.
C16_Witness ==
    /\ phase = "pair"
    /\ StreamA.pc = "done"
    /\ Len(StreamA.consumed) = 2
    /\ TerminalPositions # {}
    /\ overlap.seen
    /\ StreamB.pc = "abandoned"
    /\ StreamB.consumed # <<>>

\* Every tool call of the message has a function object, and at least one
\* has argument text that is not valid JSON.
SomeToolCallUnparseable ==
    /\ \A k \in 1..Len(response.tool_calls) :
         response.tool_calls[k].function.present
    /\ \E k \in 1..Len(response.tool_calls) :
         ~JsonValid(response.tool_calls[k].function.arguments)

\* The text that lists every tool call of the message, parsed or not, in
\* message order.
SerializedToolCalls ==
    <<"[">>
    \o Concat([k \in 1..Len(response.tool_calls) |->
                 <<"{", response.tool_calls[k].id,
                   response.tool_calls[k].function.name>>
                 \o response.tool_calls[k].function.arguments \o <<"}">>])
    \o <<"]">>

DecodedCalls == decode_assistant_message(response.text)

\* The decoded tool calls whose tool is declared by the request.
DeclaredCalls ==
    SelectSeq(DecodedCalls, LAMBDA t : t.tool_name \in request_tools)

\* C22: process_chat_completion_response with finish_reason other than
\* "tool_calls": the returned tool calls are exactly the decoded tool calls
\* whose tool name is declared in the request, in decoder order (none when
\* the request declares no tools); the content is the original raw text when
\* at least one decoded call was dropped, and the decoder's content when
\* none was dropped.
C22_DeclaredToolsOnly ==
    (/\ machine = "chat_response" /\ pc \in {"done", "raised"}
     /\ response.finish_reason # "tool_calls") =>
        /\ pc = "done"
        /\ ~result.raised
        /\ result.tool_calls = DeclaredCalls
        /\ request_tools = {} => result.tool_calls = <<>>
        /\ result.content =
             IF Len(DeclaredCalls) < Len(DecodedCalls)
               THEN response.text
               ELSE DecodedContent(response.text)

\* C22 witness: the text decodes to bar then foo, the request declares foo
\* only, and the result holds foo alone with the raw text as content.
C22_Witness ==
    /\ machine = "chat_response" /\ pc = "done"
    /\ response.finish_reason = "stop"
    /\ request_tools = {"foo"}
    /\ Len(DecodedCalls) = 2
    /\ DecodedCalls[1].tool_name = "bar"
    /\ Len(result.tool_calls) = 1
    /\ result.tool_calls[1].tool_name = "foo"
    /\ result.content = response.text

\* C23: process_chat_completion_response with finish_reason "tool_calls" and
\* a message that is absent or has no tool calls raises an error immediately
\* and returns no response, neither partial nor textual.
C23_MissingToolCallsRaise ==
    (/\ machine = "chat_response" /\ pc \in {"done", "raised"}
     /\ response.finish_reason = "tool_calls"
     /\ response.tool_calls = <<>>) =>
        /\ pc = "raised"
        /\ result = Raised

\* C23 witness: a response with finish_reason "tool_calls", a message text
\* and no tool calls made the call raise.
C23_Witness ==
    /\ machine = "chat_response" /\ pc = "raised"
    /\ response.finish_reason = "tool_calls"
    /\ response.tool_calls = <<>>
    /\ response.text = <<"foo(", "x=1)">>
    /\ result.raised

\* C24: the completion shim (OpenAICompletionToLlamaStackMixin
\* .openai_completion) rejects every request with stream set: the error is
\* raised before the underlying completion operation is invoked even once,
\* for any n and any prompt list.
C24_ShimRejectsStreaming ==
    (machine = "completion_shim" /\ request.stream = "True") =>
        /\ pc \in {"init", "raised"}
        /\ shim.invoked = <<>>
        /\ shim.choices = <<>>

\* C24 witness: a streaming request for two completions of two prompts was
\* rejected.
C24_Witness ==
    /\ machine = "completion_shim" /\ pc = "raised"
    /\ request.stream = "True"
    /\ request.n = <<2>>
    /\ Len(request.items) = 2

\* The number of completions per prompt and the number of prompts a request
\* asks for.
RequestedN == IF request.n \in {<<>>, <<0>>} THEN 1 ELSE request.n[1]

RequestedP == IF request.is_list THEN Len(request.items) ELSE 1

C26_ConvertNeverRaises ==
    (machine = "convert_tool_call" /\ pc \in {"done", "raised"}) =>
        /\ pc = "done"
        /\ ~result.raised
        /\ Len(result.tool_calls) = 1
        /\ LET tool_call == response.tool_calls[1]
               converted == result.tool_calls[1]
           IN  \/ /\ converted.kind = "ToolCall"
                  /\ JsonDecodes(tool_call.function.arguments)
                  /\ converted.arguments =
                       JsonDecoded(tool_call.function.arguments)
               \/ /\ converted.kind = "UnparseableToolCall"
                  /\ converted.call_id =
                       (IF tool_call.id = None THEN "" ELSE tool_call.id)
                  /\ converted.tool_name # None
                  /\ converted.arguments_text = tool_call.function.arguments

\* The argument has one of the three upstream shapes: a top-k mapping per
\* position, tokens with their log-probabilities, or no log-probabilities.
UpstreamShape ==
    \/ ~response.present
    \/ response.top_logprobs # <<>>
    \/ response.tokens # <<>> /\ response.token_logprobs # <<>>

\* C27: convert_openai_completion_logprobs tolerates the three upstream
\* shapes without error: an explicit top-k mapping per position gives one
\* TokenLogProbs per position; tokens with per-token log-probabilities and no
\* top-k mapping give one TokenLogProbs per position pairing token i with
\* log-probability i; absent log-probabilities give null; the result is
\* never an empty list.
C27_LogprobsShapes ==
    (machine = "logprobs" /\ pc \in {"done", "raised"} /\ UpstreamShape) =>
        /\ pc = "done"
        /\ ~result.raised
        /\ ~response.present => result.null
        /\ (response.present /\ response.top_logprobs # <<>>) =>
             /\ ~result.null \/ response.top_logprobs[1] = <<>>
             /\ result.items = response.top_logprobs[1]
        /\ (/\ response.present /\ response.top_logprobs = <<>>
            /\ response.tokens # <<>> /\ response.token_logprobs # <<>>
            /\ Len(response.tokens[1]) = Len(response.token_logprobs[1])
            /\ response.tokens[1] # <<>>) =>
             /\ ~result.null
             /\ Len(result.items) = Len(response.tokens[1])
             /\ \A k \in 1..Len(result.items) :
                  /\ DOMAIN result.items[k] = {response.tokens[1][k]}
                  /\ result.items[k][response.tokens[1][k]] =
                       response.token_logprobs[1][k]
        /\ ~result.null => result.items # <<>>

\* C28: sampling round trip: for every canonical sampling strategy (Greedy,
\* TopP, TopK) whose temperature is not 0, translating it to wire options
\* with get_sampling_strategy_options and translating the wire temperature
\* and top_p back with _convert_openai_sampling_params yields a strategy of
\* the same variant with the same parameters.
C28_SamplingRoundTrip ==
    (/\ machine = "sampling_round_trip"
     /\ pc \in {"done", "raised"}
     /\ request.strategy.temperature # Some(0)) =>
        /\ pc = "done"
        /\ result.strategy = request.strategy

\* C29 as stated: _convert_openai_sampling_params returns exactly one
\* strategy: Greedy when temperature equals 0, whatever top_p is; otherwise
\* TopP with the given temperature and top_p, each defaulting to 1.0 when
\* unset; max_tokens is copied when given.
C29_AsStated ==
    (machine = "sampling" /\ pc = "done") =>
        /\ request.temperature = Some(0) =>
              result.strategy = GreedySamplingStrategy
        /\ request.temperature # Some(0) =>
              result.strategy =
                TopPSamplingStrategy(
                  IF request.temperature = <<>> THEN DefaultTenths
                  ELSE request.temperature[1],
                  IF request.top_p = <<>> THEN DefaultTenths
                  ELSE request.top_p[1])
        /\ request.max_tokens # <<>> =>
              result.max_tokens = request.max_tokens

\* C29, amended: the strategy is as stated; max_tokens is copied when given
\* and not 0, and a max_tokens of 0 or None leaves the result without
\* max_tokens.
C29_OneStrategy ==
    (machine = "sampling" /\ pc = "done") =>
        /\ result.strategy.type \in {"greedy", "top_p"}
        /\ result.strategy.type = "greedy" <=> request.temperature = Some(0)
        /\ request.temperature = Some(0) =>
              result.strategy = GreedySamplingStrategy
        /\ request.temperature # Some(0) =>
              result.strategy =
                TopPSamplingStrategy(
                  IF request.temperature = <<>> THEN DefaultTenths
                  ELSE request.temperature[1],
                  IF request.top_p = <<>> THEN DefaultTenths
                  ELSE request.top_p[1])
        /\ TruthyInt(request.max_tokens) =>
              result.max_tokens = request.max_tokens
        /\ ~TruthyInt(request.max_tokens) => result.max_tokens = <<>>

\* A call with every argument unset has returned TopP(1.0, 1.0).
C29_Witness ==
    /\ machine = "sampling"
    /\ pc = "done"
    /\ request.temperature = <<>>
    /\ request.top_p = <<>>
    /\ request.max_tokens = Some(MaxTokens)
    /\ result.strategy = TopPSamplingStrategy(DefaultTenths, DefaultTenths)
    /\ result.max_tokens = Some(MaxTokens)

\* The request object is absent and every legacy parameter of the
\* resolver's signature is given.
LegacyCall ==
    /\ request.request = <<>>
    /\ request.benchmark_id # <<>>
    /\ request.resolver \in {"resolve_run_eval_request",
                              "resolve_evaluate_rows_request"} =>
          request.benchmark_config # <<>>
    /\ request.resolver = "resolve_evaluate_rows_request" =>
          request.input_rows # <<>> /\ request.scoring_functions # <<>>
    /\ request.resolver \in {"resolve_job_status_request",
                              "resolve_job_cancel_request",
                              "resolve_job_result_request"} =>
          request.job_id # <<>>

\* The method and the request class of each resolver.
MethodName ==
    [resolve_run_eval_request |-> "run_eval",
     resolve_evaluate_rows_request |-> "evaluate_rows",
     resolve_job_status_request |-> "job_status",
     resolve_job_cancel_request |-> "job_cancel",
     resolve_job_result_request |-> "job_result"]

RequestClass ==
    [resolve_run_eval_request |-> "RunEvalRequest",
     resolve_evaluate_rows_request |-> "EvaluateRowsRequest",
     resolve_job_status_request |-> "JobStatusRequest",
     resolve_job_cancel_request |-> "JobCancelRequest",
     resolve_job_result_request |-> "JobResultRequest"]

\* The fields of the returned request equal the legacy parameters given.
FieldsAsGiven ==
    LET new == result.value[1]
    IN  /\ new.class = RequestClass[request.resolver]
        /\ new.benchmark_id = request.benchmark_id[1]
        /\ request.benchmark_config # <<>> =>
              new.benchmark_config = request.benchmark_config[1]
        /\ request.input_rows # <<>> =>
              new.input_rows = request.input_rows[1]
        /\ request.scoring_functions # <<>> =>
              new.scoring_functions = request.scoring_functions[1]
        /\ request.job_id # <<>> => new.job_id = request.job_id[1]

\* C30: for each of the five Eval resolvers, when the request object is
\* absent and every legacy parameter is given, it returns a new request
\* whose fields equal the given parameters and emits exactly one
\* DeprecationWarning naming the method and the request class.
C30_LegacyParametersResolve ==
    (machine = "eval" /\ pc \in {"done", "raised"} /\ LegacyCall) =>
        /\ pc = "done"
        /\ ~result.raised
        /\ result.value # <<>>
        /\ FieldsAsGiven
        /\ warnings =
             << [category |-> "DeprecationWarning",
                 method_name |-> MethodName[request.resolver],
                 request_class |-> RequestClass[request.resolver]] >>

\* resolve_evaluate_rows_request has built a request from its four legacy
\* parameters and warned once.
C30_Witness ==
    /\ machine = "eval"
    /\ pc = "done"
    /\ LegacyCall
    /\ request.resolver = "resolve_evaluate_rows_request"
    /\ Len(request.input_rows[1]) = MaxRows
    /\ result.value[1].input_rows = request.input_rows[1]
    /\ Len(warnings) = 1

\* Some legacy parameter of the resolver's signature is given.
SomeLegacyParameter ==
    \/ request.benchmark_id # <<>>
    \/ request.benchmark_config # <<>>
    \/ request.input_rows # <<>>
    \/ request.scoring_functions # <<>>
    \/ request.job_id # <<>>

\* C31: for each of the five Eval resolvers, when a request object is given
\* the resolver returns that same request unchanged and emits no
\* DeprecationWarning, whether or not legacy parameters are also passed.
C31_RequestObjectWins ==
    (machine = "eval" /\ pc \in {"done", "raised"}
       /\ request.request # <<>>) =>
        /\ pc = "done"
        /\ ~result.raised
        /\ result.value = request.request
        /\ warnings = <<>>

\* A request object was passed together with legacy parameters naming
\* another benchmark, and the request object came back.
C31_Witness ==
    /\ machine = "eval"
    /\ pc = "done"
    /\ request.request # <<>>
    /\ LET given == request.request[1]
       IN  /\ request.benchmark_id # <<>>
           /\ request.benchmark_id[1] # given.benchmark_id
           /\ request.resolver = "resolve_run_eval_request" =>
                 request.benchmark_config # <<>>
           /\ result.value[1] = given
    /\ warnings = <<>>

\* C32: for each of the five Eval resolvers, when the request object is
\* absent and at least one legacy parameter is missing, the resolver raises
\* ValueError, returns no request and emits no DeprecationWarning.
C32_MissingParameterRaises ==
    (machine = "eval" /\ pc \in {"done", "raised"}
       /\ request.request = <<>> /\ ~LegacyCall) =>
        /\ pc = "raised"
        /\ result.raised
        /\ result.value = <<>>
        /\ warnings = <<>>

\* A call with some but not all legacy parameters has raised.
C32_Witness ==
    /\ machine = "eval"
    /\ pc = "raised"
    /\ request.request = <<>>
    /\ SomeLegacyParameter
    /\ ~LegacyCall
    /\ result.raised
    /\ warnings = <<>>

\* A chunk with a non-empty finish_reason has been consumed.
FinishConsumed ==
    \E i \in 1..Len(consumed) : Truthy(consumed[i].finish_reason)

\* C33: in process_chat_completion_stream_response, the first chunk with a
\* non-empty finish_reason ends the STREAMING state: no upstream chunk after
\* it is consumed, and no chunk after it influences any emitted event or the
\* resolved stop reason.
C33_FinishEndsStreaming ==
    [][machine = "chat" =>
         /\ FinishConsumed' => pc' \in {"decode", "done"}
         /\ FinishConsumed =>
               /\ consumed' = consumed
               /\ stop_reason' = stop_reason
               /\ buffer' = buffer
               /\ ipython' = ipython
               /\ pc' = "done"
               /\ events' = events \o ChatParseFailure(
                                         decode_assistant_message(buffer))
                    \o [i \in 1..Len(decode_assistant_message(buffer)) |->
                          ChatToolCallEvent(
                            decode_assistant_message(buffer)[i])]
                    \o <<CompleteEvent(stop_reason)>>]_vars

\* A stream that could have gone on was ended by a finish_reason after one
\* text chunk, and the generator has completed.
C33_Witness ==
    /\ machine = "chat"
    /\ pc = "done"
    /\ Len(consumed) = 2
    /\ Len(consumed) < MaxChunks
    /\ ~Truthy(consumed[1].finish_reason)
    /\ Truthy(consumed[2].finish_reason)
    /\ consumed[2].text # <<>>
    /\ Last(events).event_type = "complete"

\* C34: in the chat shim's streaming output for n underlying responses, the
\* choice index of a wire chunk identifies the response it came from: all
\* wire chunks derived from the same response carry the same choice index,
\* and chunks from different responses carry different indices.
C34_IndexIdentifiesResponse ==
    (machine = "chat_shim" /\ pc # "init") =>
        \A a, b \in 1..Len(shim.chunks) :
            (shim.chunks[a].response = shim.chunks[b].response)
              <=> (shim.chunks[a].index = shim.chunks[b].index)

\* C35: in the chat shim's streaming output, a wire chunk carries a non-null
\* finish_reason only when the canonical event it is derived from carries a
\* non-null stop_reason; chunks derived from start and mid-stream progress
\* events carry no finish_reason.
C35_FinishReasonNeedsStopReason ==
    (machine = "chat_shim" /\ pc # "init") =>
        \A a \in 1..Len(shim.chunks) :
            shim.chunks[a].finish_reason # None
              => shim.chunks[a].event.stop_reason # None

\* The positions of the terminal events (succeeded or failed) emitted for a
\* tool-call index.
TerminalPositionsOf(idx) ==
    {k \in 1..Len(events) :
       /\ events[k].idx = idx
       /\ events[k].parse_status \in {"succeeded", "failed"}}

\* C36: in the wire-incremental machine, every tool-call index for which at
\* least one in_progress fragment was emitted also gets exactly one terminal
\* event (succeeded or failed) before complete, including an index whose
\* fragments carried argument text but never a function name.
C36_EveryIndexTerminates ==
    (machine = "wire" /\ pc = "done" /\ enable_incremental_tool_calls) =>
        \A idx \in {0, 1} :
            (\E k \in 1..Len(events) :
                /\ events[k].parse_status = "in_progress"
                /\ events[k].idx = idx) =>
                /\ Cardinality(TerminalPositionsOf(idx)) = 1
                /\ \A k \in TerminalPositionsOf(idx) : k < Len(events)

\* The position in consumed of the first chunk with a non-empty
\* finish_reason; the last position when there is none.
FirstFinishPosition ==
    IF FinishConsumed
      THEN CHOOSE k \in 1..Len(consumed) :
             /\ Truthy(consumed[k].finish_reason)
             /\ \A j \in 1..(k - 1) : ~Truthy(consumed[j].finish_reason)
      ELSE Len(consumed)

\* The texts of the upstream chunks up to and including the first one with a
\* finish_reason, the stop markers left out.
TextsUpToFinish ==
    LET texts == [k \in 1..FirstFinishPosition |-> consumed[k].text]
    IN  SelectSeq(texts, LAMBDA t : t # <<EOT>> /\ t # <<EOM>>)

\* C37: process_completion_stream_response emits, in arrival order, exactly
\* one chunk for each upstream chunk up to and including the first chunk
\* with a non-empty finish_reason, except chunks whose text is exactly a stop
\* marker (which emit nothing and only record the stop reason), and then
\* exactly one final chunk with empty delta carrying the resolved stop
\* reason; the text of the chunk that carries the finish_reason is emitted
\* before that final chunk.
C37_OneChunkPerUpstreamChunk ==
    (machine = "completion_stream" /\ pc = "done") =>
        /\ Len(events) = Len(TextsUpToFinish) + 1
        /\ \A k \in 1..Len(TextsUpToFinish) :
              events[k].delta = TextsUpToFinish[k]
        /\ Last(events) = CompletionResponseStreamChunk(<<>>, stop_reason)

\* The statuses the handler reported, counted by value.
StatusCount(status) ==
    Cardinality({k \in 1..Len(shim.statuses) : shim.statuses[k] = status})

\* The artifacts collected are those of the first n items, in input order.
ArtifactsOfFirst(n) ==
    /\ Len(shim.artifacts) = n
    /\ \A k \in 1..n :
         shim.artifacts[k].metadata.item = request.content[k].name

\* C38: in every run of the batch-explanation job handler, the status
\* callbacks occur as: running exactly once and first, then exactly one of
\* completed or failed as the last status; completed is reported only after
\* exactly len(content) artifacts were collected, one per item in input
\* order; when explaining item i fails, exactly i artifacts (items 0..i-1)
\* have been collected, failed is reported and the exception is re-raised.
C38_HandlerStatuses ==
    (machine = "batch_explain" /\ pc \in {"items", "completed", "failed"}) =>
        /\ shim.statuses[1] = "running"
        /\ StatusCount("running") = 1
        /\ pc = "items" => shim.statuses = <<"running">>
        /\ pc \in {"completed", "failed"} =>
             /\ Len(shim.statuses) = 2
             /\ shim.statuses[2] = pc
        /\ pc = "completed" => ArtifactsOfFirst(Len(request.content))
        /\ pc = "failed" =>
             /\ shim.i < Len(request.content)
             /\ explain(request.content[shim.i + 1], request.algorithm,
                         None).raised
             /\ ArtifactsOfFirst(shim.i)

\* A job of two items whose second item failed after the first was
\* collected.
C38_Witness ==
    /\ machine = "batch_explain"
    /\ pc = "failed"
    /\ Len(request.content) = 2
    /\ shim.i = 1
    /\ Len(shim.artifacts) = 1
    /\ shim.statuses = <<"running", "failed">>

\* C39: batch_explain with a non-empty target list whose length differs
\* from the length of content raises an error and schedules no job: the set
\* of jobs known to the scheduler is unchanged; in every other case exactly
\* one job is scheduled and its identifier is returned.
C39_TargetLengthChecked ==
    [][(machine = "batch_explain" /\ pc = "init") =>
         IF /\ request.target # <<>>
            /\ request.target[1] # <<>>
            /\ Len(request.target[1]) # Len(request.content)
           THEN /\ pc' = "raised"
                /\ result'.raised
                /\ shim'.jobs = shim.jobs
           ELSE /\ pc' = "scheduled"
                /\ ~result'.raised
                /\ Cardinality(shim'.jobs \ shim.jobs) = 1
                /\ shim.jobs \subseteq shim'.jobs
                /\ result'.job_uuid =
                     <<CHOOSE j \in shim'.jobs \ shim.jobs : TRUE>>
    ]_vars

\* A call with an empty target list and a non-empty content has scheduled
\* one job beside the one the scheduler already had.
C39_Witness ==
    /\ machine = "batch_explain"
    /\ pc = "scheduled"
    /\ request.target = Some(<<>>)
    /\ request.content # <<>>
    /\ shim.jobs = {"job-old", NewJobId}
    /\ result.job_uuid = Some(NewJobId)

====
